---- MODULE Spec2Model ----
(***************************************************************************)
(* Model of the otx/nats tracing wrappers: the Publisher, the consumer     *)
(* wrapper (TracedConsumer), the callback handler wrapper and the batch    *)
(* iterator (TracedMessageBatch).                                          *)
(*                                                                         *)
(* Three families of behaviours are specified over the same variables:     *)
(*   Spec          the synchronous operations, run by one caller, one call *)
(*                 at a time, each split at the point where it hands       *)
(*                 control to the underlying client (the delegate) or to   *)
(*                 the user handler;                                       *)
(*   SpecBatch     one TracedMessageBatch shared by two caller tasks, with *)
(*                 the unsynchronised steps of Messages() interleaved;     *)
(*   SpecBatchSeq  the same batch with Messages() calls that do not        *)
(*                 overlap, and Error() calls between them.                *)
(* Further specifications, over the same variables:                        *)
(*   SpecBatchLive   SpecBatchSeq with the fairness of the goroutine, of   *)
(*                   the native sequence and of the receiving caller;      *)
(*   SpecProcessOff  the consumer and handler wrappers built with          *)
(*                   WithProcessSpans(false);                              *)
(*   SpecConstruct   one call of a constructor, of                         *)
(*                   StartProcessSpanWithTracer or of applyOptions, after  *)
(*                   any InitTracing calls;                                *)
(*   SpecAttributes  one call of an attribute builder;                     *)
(*   SpecCarrier     Set calls on a header carrier.                        *)
(***************************************************************************)
EXTENDS Integers, Sequences, FiniteSets, TLC

VARIABLES
    opts,       \* the options value resolved at construction
    spans,      \* every span started so far; a span's id is its index
    call,       \* the wrapper operation in progress (Idle when none)
    wire,       \* outgoing messages the underlying client accepted
    last,       \* the most recently completed wrapper operation
    nops,       \* number of wrapper operations started
    tcStream,   \* TracedConsumer.stream, the target stream name
    iters,      \* number of TracedMessagesContext values handed out
    msgChan,    \* TracedMessageBatch.msgChan (0 is nil, else a channel id)
    chans,      \* channels made by Messages(): number of close() calls each
    native,     \* the underlying batch and its native message channel
    producers,  \* background producer goroutines spawned by Messages()
    tasks,      \* the caller tasks of the batch and where each stands
    received,   \* the TracedMsg values received from the channels, in order
    tracker,    \* the tracer InitTracing stored in the tracker package (nil if none)
    args,       \* the arguments of the constructor or function calls made
    result      \* what the calls of args built or returned

syncVars  == <<opts, spans, call, wire, last, nops, tcStream, iters>>
batchVars == <<msgChan, chans, native, producers, tasks, received>>
pureVars  == <<tracker, args, result>>
vars      == <<opts, spans, call, wire, last, nops, tcStream, iters,
               msgChan, chans, native, producers, tasks, received,
               tracker, args, result>>

----------------------------------------------------------------------------
(* Bounds *)

MaxOps   == 2   \* wrapper operations per behaviour of Spec
MaxBatch == 3   \* messages in the underlying batch
MaxCalls == 2   \* Messages() calls per caller task

----------------------------------------------------------------------------
(* Contexts and span contexts *)

\* context.Background(): no span context
Background == [trace |-> 0, span |-> 0, remote |-> FALSE]

\* trace.SpanContext.IsValid
IsValid(ctx) == ctx.trace # 0 /\ ctx.span # 0

\* a caller context whose active span is P (trace 7, span 70)
ParentCtx == [trace |-> 7, span |-> 70, remote |-> FALSE]

CallerCtxs == {Background, ParentCtx}

----------------------------------------------------------------------------
(* nats.Header and the header carrier *)

\* the keys in use: the propagator's key, the same key in another spelling,
\* and an application key
HeaderKeys == {"traceparent", "Traceparent", "x-app"}

\* a nil map
NilHeader == [isNil |-> TRUE, keys |-> {}, vals |-> [k \in HeaderKeys |-> <<>>]]

\* make(nats.Header)
MakeHeader == [isNil |-> FALSE, keys |-> {}, vals |-> [k \in HeaderKeys |-> <<>>]]

\* headerCarrier.Get: the first value of the key, "" (here <<>>) if none
CarrierGet(h, key) ==
    IF key \in h.keys /\ Len(h.vals[key]) > 0 THEN h.vals[key][1] ELSE <<>>

\* CarrierSet over a map that folds the spellings of a key into one
CarrierSet_FoldsCase(h, key, value) ==
    LET k == IF key = "Traceparent" THEN "traceparent" ELSE key
    IN  [h EXCEPT !.keys = @ \cup {k}, !.vals[k] = <<value>>]

\* headerCarrier.Set: the key holds the single value afterwards
CarrierSet(h, key, value) ==
    [h EXCEPT !.keys = @ \cup {key}, !.vals[key] = <<value>>]

\* headerCarrier.Keys
CarrierKeys(h) == h.keys

----------------------------------------------------------------------------
(* The propagator (propagation.TraceContext, as the tests configure it) *)

\* the traceparent value of a span context: version, trace id, span id, flags
FormatTraceparent(ctx) == <<"00", ctx.trace, ctx.span, "01">>

\* parse of a traceparent value; Background-like when it is not well formed
ParseTraceparent(v) ==
    IF Len(v) = 4 /\ v[1] = "00" /\ v[2] # 0 /\ v[3] # 0
    THEN [trace |-> v[2], span |-> v[3], remote |-> TRUE]
    ELSE Background

\* TextMapPropagator.Inject: writes traceparent when ctx holds a valid span
PropInject(ctx, h) ==
    IF IsValid(ctx) THEN CarrierSet(h, "traceparent", FormatTraceparent(ctx)) ELSE h

\* TextMapPropagator.Extract: ctx with the remote span context, or ctx itself
PropExtract(ctx, h) ==
    LET sc == ParseTraceparent(CarrierGet(h, "traceparent"))
    IN  IF IsValid(sc) THEN sc ELSE ctx

----------------------------------------------------------------------------
(* Attribute builders: a function from the attribute keys that are set *)

\* publishAttributes: message id and body size only when set
publishAttributes(subject, msgID, bodySize) ==
    LET base == ("messaging.system" :> "nats")
                @@ ("messaging.operation.name" :> "publish")
                @@ ("messaging.operation.type" :> "send")
                @@ ("messaging.destination.name" :> subject)
        a1   == IF msgID # "" THEN base @@ ("messaging.message.id" :> msgID)
                ELSE base
    IN  IF bodySize > 0 THEN a1 @@ ("messaging.message.body.size" :> bodySize)
        ELSE a1

\* receiveAttributes: consumer group and body size only when set
receiveAttributes(stream, consumerName, bodySize) ==
    LET base == ("messaging.system" :> "nats")
                @@ ("messaging.operation.name" :> "receive")
                @@ ("messaging.operation.type" :> "receive")
                @@ ("nats.stream" :> stream)
        a1   == IF consumerName # ""
                THEN base @@ ("messaging.consumer.group.name" :> consumerName)
                ELSE base
    IN  IF bodySize > 0 THEN a1 @@ ("messaging.message.body.size" :> bodySize)
        ELSE a1

\* processAttributes with the destination appended whatever the subject is
processAttributes_AlwaysDestination(stream, consumerName, subject, msgID, bodySize) ==
    LET base == ("messaging.system" :> "nats")
                @@ ("messaging.operation.name" :> "process")
                @@ ("messaging.operation.type" :> "process")
                @@ ("nats.stream" :> stream)
        a1   == base @@ ("messaging.destination.name" :> subject)
        a2   == IF consumerName # ""
                THEN a1 @@ ("messaging.consumer.group.name" :> consumerName)
                ELSE a1
        a3   == IF msgID # "" THEN a2 @@ ("messaging.message.id" :> msgID)
                ELSE a2
    IN  IF bodySize > 0 THEN a3 @@ ("messaging.message.body.size" :> bodySize)
        ELSE a3

\* processAttributes: destination, consumer group, message id and body size
\* only when set
processAttributes(stream, consumerName, subject, msgID, bodySize) ==
    LET base == ("messaging.system" :> "nats")
                @@ ("messaging.operation.name" :> "process")
                @@ ("messaging.operation.type" :> "process")
                @@ ("nats.stream" :> stream)
        a1   == IF subject # ""
                THEN base @@ ("messaging.destination.name" :> subject) ELSE base
        a2   == IF consumerName # ""
                THEN a1 @@ ("messaging.consumer.group.name" :> consumerName)
                ELSE a1
        a3   == IF msgID # "" THEN a2 @@ ("messaging.message.id" :> msgID)
                ELSE a2
    IN  IF bodySize > 0 THEN a3 @@ ("messaging.message.body.size" :> bodySize)
        ELSE a3

----------------------------------------------------------------------------
(* The tracer and the span API *)

\* tracer.Start: a new span, child of ctx's span context when that is valid,
\* else the root of a new trace, with the attributes given at start; returns
\* the spans, the new context and the id
TracerStart(ss, ctx, name, kind, attrs) ==
    LET id == Len(ss) + 1
        tr == IF IsValid(ctx) THEN ctx.trace ELSE 100 + id
        sp == [kind |-> kind, name |-> name, trace |-> tr,
               parent |-> IF IsValid(ctx) THEN ctx.span ELSE 0,
               attrs |-> attrs, calls |-> <<>>]
    IN  [spans |-> Append(ss, sp),
         ctx   |-> [trace |-> tr, span |-> id, remote |-> FALSE],
         id    |-> id]

\* one call on a span (RecordError, SetStatus, SetAttributes, End), logged
SpanCall(ss, id, c) == [ss EXCEPT ![id].calls = Append(@, c)]

RecordError(ss, id, text)  == SpanCall(ss, id, <<"RecordError", text>>)
SetStatusError(ss, id, d)  == SpanCall(ss, id, <<"SetStatus", d>>)
SetAttributes(ss, id, mid) == SpanCall(ss, id, <<"SetAttributes", mid>>)
SpanEnd(ss, id)            == SpanCall(ss, id, <<"End", "">>)

\* err.Error()
ErrorText(e) == IF e = "e1" THEN "nats: timeout" ELSE "nats: no responders"

----------------------------------------------------------------------------
(* Messages, delegate outcomes and call records *)

NoMeta == [ok |-> FALSE, stream |-> "", consumer |-> ""]

\* a nil message
NoMsg == [isNil |-> TRUE, subject |-> "", data |-> <<>>, header |-> NilHeader,
          meta |-> NoMeta]

\* &nats.Msg{Subject, Data, Header}
NatsMsg(subject, data, header) ==
    [isNil |-> FALSE, subject |-> subject, data |-> data, header |-> header,
     meta |-> NoMeta]

Subjects == {"orders.created"}
Datas    == {<<>>, <<"x">>}

\* a header that already holds an application key and a stale traceparent
StaleHeader ==
    CarrierSet(CarrierSet(MakeHeader, "x-app", <<"v">>),
               "traceparent", <<"00", 5, 50, "01">>)

\* messages a caller hands to PublishMsg / PublishAsyncMsg
OutMsgs ==
    { NatsMsg("orders.created", <<"x">>, h) : h \in {NilHeader, MakeHeader, StaleHeader} }

\* the jetstream.Msg the server delivers for an accepted outgoing message
Delivered(m) ==
    [m EXCEPT !.meta = [ok |-> TRUE, stream |-> "ORDERS", consumer |-> "c1"]]

\* inbound messages that did not come through this Publisher
ForeignMsgs ==
    { [isNil |-> FALSE, subject |-> "orders.created", data |-> <<"x">>,
       header |-> NilHeader, meta |-> NoMeta],
      [isNil |-> FALSE, subject |-> "", data |-> <<>>,
       header |-> CarrierSet(MakeHeader, "traceparent", <<"zz", 0, 0, "">>),
       meta |-> [ok |-> TRUE, stream |-> "ORDERS", consumer |-> ""]] }

Errors == {"e1", "e2"}

\* what a delegate (or the user handler) does: returns v, returns the error
\* e, or panics with value v
Ok(v, m)  == [k |-> "ok",    e |-> "nil", v |-> v,     msg |-> m]
Err(e)    == [k |-> "err",   e |-> e,     v |-> "nil", msg |-> NoMsg]
Panic(v)  == [k |-> "panic", e |-> "nil", v |-> v,     msg |-> NoMsg]
NoOutcome == [k |-> "none",  e |-> "nil", v |-> "nil", msg |-> NoMsg]

Failures == {Err(e) : e \in Errors} \cup {Panic("boom")}

\* js.PublishMsg: an ack (possibly nil), an error, or a panic
PublishOutcomes == {Ok("nil", NoMsg), Ok("ack:5", NoMsg)} \cup Failures
\* js.PublishAsync / js.PublishMsgAsync
AsyncOutcomes   == {Ok("future", NoMsg)} \cup Failures
\* consumer.Fetch / FetchBytes / FetchNoWait
FetchOutcomes   == {Ok("batch", NoMsg)} \cup Failures
\* consumer.Next and messagesCtx.Next
NextOutcomes    == {Ok("msg", m) : m \in ForeignMsgs} \cup Failures
\* consumer.Messages
MessagesOutcomes == {Ok("iter", NoMsg)} \cup Failures
\* consumer.Consume
ConsumeOutcomes == {Ok("cc", NoMsg)} \cup Failures
\* the user handler of the callback wrapper: returns, or panics with a value
UserOutcomes    == {Ok("nil", NoMsg), Panic("v1"), Panic("v2")}

\* a wrapper operation in progress: op, where it stands, the caller's
\* context, the message it works on, its span (0: none), the context it will
\* hand on, and the wire entry the message came from (0: none); arg is the
\* message as the caller passed it, inj the number of Inject calls and ext
\* the number of Extract calls made on the propagator, override the stream
\* option passed with the call itself
InCall(op, ctx, msg, span, tctx, origin) ==
    [op |-> op, ctx |-> ctx, msg |-> msg, span |-> span, tctx |-> tctx,
     origin |-> origin, arg |-> NoMsg, inj |-> 0, ext |-> 0, override |-> ""]

\* a publish call: the caller's argument as it was before the call, and the
\* number of Inject calls the operation makes on the propagator
WithArg(c, arg, inj) == [c EXCEPT !.arg = arg, !.inj = inj]

Idle == InCall("none", Background, NoMsg, 0, Background, 0)

\* a completed wrapper operation: the call, what the delegate did (d) and
\* what the wrapper did towards its caller (ret)
Done(c, d, ret) ==
    [op |-> c.op, ctx |-> c.ctx, msg |-> c.msg, span |-> c.span,
     tctx |-> c.tctx, origin |-> c.origin, arg |-> c.arg, inj |-> c.inj,
     ext |-> c.ext, override |-> c.override, d |-> d, ret |-> ret]

NoLast == Done(Idle, NoOutcome, NoOutcome)

MayStart == call = Idle /\ nops < MaxOps

\* the underlying client takes an outgoing message it returned success for;
\* for an async publish it has returned a delivery future, not yet resolved
Accept(w, c, d) ==
    IF d.k = "ok"
    THEN Append(w, [msg |-> c.msg, span |-> c.span, op |-> c.op, ctx |-> c.ctx,
                    fut |-> IF c.op \in {"PublishAsync", "PublishAsyncMsg"}
                            THEN "pending" ELSE "none"])
    ELSE w

\* how a delivery future resolves: the ack arrives, or the delivery fails
Resolutions == {"ack", "failed"}

----------------------------------------------------------------------------
(* Publisher *)

\* PublishCall with the injection made from the caller's context instead of
\* the context that holds the producer span
PublishCall_InjectsCallerCtx(ctx, subject, data, injPanics) ==
    /\ MayStart
    /\ LET st  == TracerStart(spans, ctx, "publish " \o subject, "producer",
                              publishAttributes(subject, "", Len(data)))
           msg == NatsMsg(subject, data, MakeHeader)
           c   == WithArg(InCall("Publish", ctx, msg, st.id, st.ctx, 0),
                          NatsMsg(subject, data, NilHeader), 1)
       IN  IF injPanics
           THEN /\ spans' = SpanEnd(st.spans, st.id)
                /\ last' = Done(c, NoOutcome, Panic("inject"))
                /\ call' = Idle
           ELSE /\ spans' = st.spans
                /\ call' = [c EXCEPT !.msg.header = PropInject(ctx, @)]
                /\ last' = last
    /\ nops' = nops + 1
    /\ UNCHANGED <<batchVars, pureVars>>
    /\ UNCHANGED <<opts, wire, tcStream, iters>>

\* Publish up to the delegate call: producer span, fresh header, injection.
\* A panic of the propagator unwinds through the deferred span.End().
PublishCall(ctx, subject, data, injPanics) ==
    /\ MayStart
    /\ LET st  == TracerStart(spans, ctx, "publish " \o subject, "producer",
                              publishAttributes(subject, "", Len(data)))
           msg == NatsMsg(subject, data, MakeHeader)
           c   == WithArg(InCall("Publish", ctx, msg, st.id, st.ctx, 0),
                          NatsMsg(subject, data, NilHeader), 1)
       IN  IF injPanics
           THEN /\ spans' = SpanEnd(st.spans, st.id)
                /\ last' = Done(c, NoOutcome, Panic("inject"))
                /\ call' = Idle
           ELSE /\ spans' = st.spans
                /\ call' = [c EXCEPT !.msg.header = PropInject(st.ctx, @)]
                /\ last' = last
    /\ nops' = nops + 1
    /\ UNCHANGED <<batchVars, pureVars>>
    /\ UNCHANGED <<opts, wire, tcStream, iters>>

\* Publish from the delegate's return on
PublishReturn(d) ==
    /\ call.op = "Publish"
    /\ spans' = CASE d.k = "err" ->
                       SpanEnd(SetStatusError(RecordError(spans, call.span, ErrorText(d.e)),
                                              call.span, ErrorText(d.e)), call.span)
                  [] d.k = "ok" /\ d.v # "nil" ->
                       SpanEnd(SetAttributes(spans, call.span, d.v), call.span)
                  [] OTHER -> SpanEnd(spans, call.span)
    /\ last' = Done(call, d, CASE d.k = "err" -> Err(d.e)
                               [] d.k = "ok"  -> Ok(d.v, NoMsg)
                               [] OTHER       -> Panic(d.v))
    /\ wire' = Accept(wire, call, d)
    /\ call' = Idle
    /\ UNCHANGED <<batchVars, pureVars>>
    /\ UNCHANGED <<opts, nops, tcStream, iters>>

\* PublishMsgCall with a header map made anew for every message
PublishMsgCall_FreshHeader(ctx, msg, injPanics) ==
    /\ MayStart
    /\ LET st  == TracerStart(spans, ctx, "publish " \o msg.subject, "producer",
                              publishAttributes(msg.subject, "", Len(msg.data)))
           hdr == MakeHeader
           c   == WithArg(InCall("PublishMsg", ctx, [msg EXCEPT !.header = hdr],
                                 st.id, st.ctx, 0), msg, 1)
       IN  IF injPanics
           THEN /\ spans' = SpanEnd(st.spans, st.id)
                /\ last' = Done(c, NoOutcome, Panic("inject"))
                /\ call' = Idle
           ELSE /\ spans' = st.spans
                /\ call' = [c EXCEPT !.msg.header = PropInject(st.ctx, @)]
                /\ last' = last
    /\ nops' = nops + 1
    /\ UNCHANGED <<batchVars, pureVars>>
    /\ UNCHANGED <<opts, wire, tcStream, iters>>

\* PublishMsg up to the delegate call: the caller's message is used as it
\* is, a nil header map is replaced before the injection
PublishMsgCall(ctx, msg, injPanics) ==
    /\ MayStart
    /\ LET st  == TracerStart(spans, ctx, "publish " \o msg.subject, "producer",
                              publishAttributes(msg.subject, "", Len(msg.data)))
           hdr == IF msg.header.isNil THEN MakeHeader ELSE msg.header
           c   == WithArg(InCall("PublishMsg", ctx, [msg EXCEPT !.header = hdr],
                                 st.id, st.ctx, 0), msg, 1)
       IN  IF injPanics
           THEN /\ spans' = SpanEnd(st.spans, st.id)
                /\ last' = Done(c, NoOutcome, Panic("inject"))
                /\ call' = Idle
           ELSE /\ spans' = st.spans
                /\ call' = [c EXCEPT !.msg.header = PropInject(st.ctx, @)]
                /\ last' = last
    /\ nops' = nops + 1
    /\ UNCHANGED <<batchVars, pureVars>>
    /\ UNCHANGED <<opts, wire, tcStream, iters>>

\* PublishMsg from the delegate's return on
PublishMsgReturn(d) ==
    /\ call.op = "PublishMsg"
    /\ spans' = CASE d.k = "err" ->
                       SpanEnd(SetStatusError(RecordError(spans, call.span, ErrorText(d.e)),
                                              call.span, ErrorText(d.e)), call.span)
                  [] d.k = "ok" /\ d.v # "nil" ->
                       SpanEnd(SetAttributes(spans, call.span, d.v), call.span)
                  [] OTHER -> SpanEnd(spans, call.span)
    /\ last' = Done(call, d, CASE d.k = "err" -> Err(d.e)
                               [] d.k = "ok"  -> Ok(d.v, NoMsg)
                               [] OTHER       -> Panic(d.v))
    /\ wire' = Accept(wire, call, d)
    /\ call' = Idle
    /\ UNCHANGED <<batchVars, pureVars>>
    /\ UNCHANGED <<opts, nops, tcStream, iters>>

\* PublishAsync up to the delegate call. With async spans off the call goes
\* straight to js.PublishAsync: no span, no message built, no injection.
PublishAsyncCall(subject, data, injPanics) ==
    /\ MayStart
    /\ IF ~opts.asyncSpans
       THEN /\ ~injPanics
            /\ call' = WithArg(InCall("PublishAsync", Background,
                                      NatsMsg(subject, data, NilHeader),
                                      0, Background, 0),
                               NatsMsg(subject, data, NilHeader), 0)
            /\ UNCHANGED <<spans, last>>
       ELSE LET st  == TracerStart(spans, Background, "publish " \o subject,
                                   "producer",
                                   publishAttributes(subject, "", Len(data)))
                msg == NatsMsg(subject, data, MakeHeader)
                c   == WithArg(InCall("PublishAsync", Background, msg, st.id,
                                      st.ctx, 0),
                               NatsMsg(subject, data, NilHeader), 1)
            IN  IF injPanics
                THEN /\ spans' = SpanEnd(st.spans, st.id)
                     /\ last' = Done(c, NoOutcome, Panic("inject"))
                     /\ call' = Idle
                ELSE /\ spans' = st.spans
                     /\ call' = [c EXCEPT !.msg.header = PropInject(st.ctx, @)]
                     /\ last' = last
    /\ nops' = nops + 1
    /\ UNCHANGED <<batchVars, pureVars>>
    /\ UNCHANGED <<opts, wire, tcStream, iters>>

\* PublishAsyncReturn with span.End() called on the return paths only, not
\* deferred: a panic of the delegate leaves the span open
PublishAsyncReturn_EndNotDeferred(d) ==
    /\ call.op = "PublishAsync"
    /\ IF call.span = 0
       THEN /\ spans' = spans
            /\ last' = Done(call, d, d)
       ELSE /\ spans' = CASE d.k = "err" ->
                               SpanEnd(SetStatusError(
                                   RecordError(spans, call.span, ErrorText(d.e)),
                                   call.span, ErrorText(d.e)), call.span)
                          [] d.k = "ok" -> SpanEnd(spans, call.span)
                          [] OTHER -> spans
            /\ last' = Done(call, d, CASE d.k = "err" -> Err(d.e)
                                       [] d.k = "ok"  -> Ok(d.v, NoMsg)
                                       [] OTHER       -> Panic(d.v))
    /\ wire' = Accept(wire, call, d)
    /\ call' = Idle
    /\ UNCHANGED <<batchVars, pureVars>>
    /\ UNCHANGED <<opts, nops, tcStream, iters>>

\* PublishAsync from the delegate's return on
PublishAsyncReturn(d) ==
    /\ call.op = "PublishAsync"
    /\ IF call.span = 0
       THEN /\ spans' = spans
            /\ last' = Done(call, d, d)
       ELSE /\ spans' = IF d.k = "err"
                        THEN SpanEnd(SetStatusError(
                                 RecordError(spans, call.span, ErrorText(d.e)),
                                 call.span, ErrorText(d.e)), call.span)
                        ELSE SpanEnd(spans, call.span)
            /\ last' = Done(call, d, CASE d.k = "err" -> Err(d.e)
                                       [] d.k = "ok"  -> Ok(d.v, NoMsg)
                                       [] OTHER       -> Panic(d.v))
    /\ wire' = Accept(wire, call, d)
    /\ call' = Idle
    /\ UNCHANGED <<batchVars, pureVars>>
    /\ UNCHANGED <<opts, nops, tcStream, iters>>

\* PublishAsyncMsgCall without the early return on the async-span toggle:
\* with the option off the nil header map is still replaced and Inject is
\* still called, over the empty context
PublishAsyncMsgCall_NoPassthrough(msg, injPanics) ==
    /\ MayStart
    /\ IF ~opts.asyncSpans
       THEN /\ ~injPanics
            /\ LET hdr == IF msg.header.isNil THEN MakeHeader ELSE msg.header
               IN  call' = WithArg(InCall("PublishAsyncMsg", Background,
                                          [msg EXCEPT !.header =
                                               PropInject(Background, hdr)],
                                          0, Background, 0), msg, 1)
            /\ UNCHANGED <<spans, last>>
       ELSE LET st  == TracerStart(spans, Background, "publish " \o msg.subject,
                                   "producer",
                                   publishAttributes(msg.subject, "", Len(msg.data)))
                hdr == IF msg.header.isNil THEN MakeHeader ELSE msg.header
                c   == WithArg(InCall("PublishAsyncMsg", Background,
                                      [msg EXCEPT !.header = hdr], st.id,
                                      st.ctx, 0), msg, 1)
            IN  IF injPanics
                THEN /\ spans' = SpanEnd(st.spans, st.id)
                     /\ last' = Done(c, NoOutcome, Panic("inject"))
                     /\ call' = Idle
                ELSE /\ spans' = st.spans
                     /\ call' = [c EXCEPT !.msg.header = PropInject(st.ctx, @)]
                     /\ last' = last
    /\ nops' = nops + 1
    /\ UNCHANGED <<batchVars, pureVars>>
    /\ UNCHANGED <<opts, wire, tcStream, iters>>

\* PublishAsyncMsg up to the delegate call
PublishAsyncMsgCall(msg, injPanics) ==
    /\ MayStart
    /\ IF ~opts.asyncSpans
       THEN /\ ~injPanics
            /\ call' = WithArg(InCall("PublishAsyncMsg", Background, msg, 0,
                                      Background, 0), msg, 0)
            /\ UNCHANGED <<spans, last>>
       ELSE LET st  == TracerStart(spans, Background, "publish " \o msg.subject,
                                   "producer",
                                   publishAttributes(msg.subject, "", Len(msg.data)))
                hdr == IF msg.header.isNil THEN MakeHeader ELSE msg.header
                c   == WithArg(InCall("PublishAsyncMsg", Background,
                                      [msg EXCEPT !.header = hdr], st.id,
                                      st.ctx, 0), msg, 1)
            IN  IF injPanics
                THEN /\ spans' = SpanEnd(st.spans, st.id)
                     /\ last' = Done(c, NoOutcome, Panic("inject"))
                     /\ call' = Idle
                ELSE /\ spans' = st.spans
                     /\ call' = [c EXCEPT !.msg.header = PropInject(st.ctx, @)]
                     /\ last' = last
    /\ nops' = nops + 1
    /\ UNCHANGED <<batchVars, pureVars>>
    /\ UNCHANGED <<opts, wire, tcStream, iters>>

\* PublishAsyncMsg from the delegate's return on
PublishAsyncMsgReturn(d) ==
    /\ call.op = "PublishAsyncMsg"
    /\ IF call.span = 0
       THEN /\ spans' = spans
            /\ last' = Done(call, d, d)
       ELSE /\ spans' = IF d.k = "err"
                        THEN SpanEnd(SetStatusError(
                                 RecordError(spans, call.span, ErrorText(d.e)),
                                 call.span, ErrorText(d.e)), call.span)
                        ELSE SpanEnd(spans, call.span)
            /\ last' = Done(call, d, CASE d.k = "err" -> Err(d.e)
                                       [] d.k = "ok"  -> Ok(d.v, NoMsg)
                                       [] OTHER       -> Panic(d.v))
    /\ wire' = Accept(wire, call, d)
    /\ call' = Idle
    /\ UNCHANGED <<batchVars, pureVars>>
    /\ UNCHANGED <<opts, nops, tcStream, iters>>

\* FutureResolve with the delivery failure written to the producer span
\* when the future resolves
FutureResolve_RecordsOnSpan(i, r) ==
    /\ wire[i].fut = "pending"
    /\ wire' = [wire EXCEPT ![i].fut = r]
    /\ spans' = IF r = "failed" /\ wire[i].span # 0
                THEN SetStatusError(RecordError(spans, wire[i].span, "delivery"),
                                    wire[i].span, "delivery")
                ELSE spans
    /\ UNCHANGED <<batchVars, pureVars>>
    /\ UNCHANGED <<opts, call, last, nops, tcStream, iters>>

\* the delivery future of an accepted async publish resolves, at any time
\* after the call returned it: the Publisher holds no reference to it
FutureResolve(i, r) ==
    /\ wire[i].fut = "pending"
    /\ wire' = [wire EXCEPT ![i].fut = r]
    /\ UNCHANGED <<batchVars, pureVars>>
    /\ UNCHANGED <<opts, spans, call, last, nops, tcStream, iters>>

----------------------------------------------------------------------------
(* Consumer wrapper *)

\* the name in the consumer's cached info: "" when there is no cached info
CachedNames == {"", "c1"}

\* startFetchSpan: a client span "receive <stream>" over the empty context
startFetchSpan(ss, consumerName) ==
    TracerStart(ss, Background, "receive " \o tcStream, "client",
                receiveAttributes(tcStream, consumerName, 0))

\* extractContextRun without the nil check on the header map: the
\* propagator is called on the carrier of a nil map
extractContextRun_NoHeaderCheck(ctx, msg) ==
    IF msg.isNil THEN [ctx |-> ctx, ext |-> 0]
    ELSE [ctx |-> PropExtract(ctx, msg.header), ext |-> 1]

\* TracedConsumer.extractContext as it runs: the context it returns and the
\* number of Extract calls it makes on the propagator
extractContextRun(ctx, msg) ==
    IF msg.isNil THEN [ctx |-> ctx, ext |-> 0]
    ELSE IF msg.header.isNil THEN [ctx |-> ctx, ext |-> 0]
    ELSE [ctx |-> PropExtract(ctx, msg.header), ext |-> 1]

\* TracedConsumer.extractContext
extractContext(ctx, msg) == extractContextRun(ctx, msg).ctx

\* ExtractNATSWithPropagator (and ExtractNATS, with the global propagator)
\* as it runs: the context it returns and the number of Extract calls
ExtractNATSWithPropagator(ctx, header) ==
    IF header.isNil THEN [ctx |-> ctx, ext |-> 0]
    ELSE [ctx |-> PropExtract(ctx, header), ext |-> 1]

\* contexts, messages and header maps handed to the extraction functions
ExtractMsgs    == {NoMsg} \cup ForeignMsgs
ExtractHeaders == {NilHeader, MakeHeader, StaleHeader}

\* a direct call of tc.extractContext(ctx, msg)
ExtractContextCall(ctx, msg) ==
    /\ MayStart
    /\ LET run == extractContextRun(ctx, msg)
       IN  last' = Done([InCall("extractContext", ctx, msg, 0, run.ctx, 0)
                             EXCEPT !.ext = run.ext],
                        NoOutcome, NoOutcome)
    /\ nops' = nops + 1
    /\ UNCHANGED <<batchVars, pureVars>>
    /\ UNCHANGED <<opts, spans, call, wire, tcStream, iters>>

\* a call of ExtractNATSWithPropagator(ctx, header, prop)
ExtractNATSCall(ctx, header) ==
    /\ MayStart
    /\ LET run == ExtractNATSWithPropagator(ctx, header)
       IN  last' = Done([InCall("ExtractNATS", ctx, NatsMsg("", <<>>, header), 0,
                                run.ctx, 0)
                             EXCEPT !.ext = run.ext],
                        NoOutcome, NoOutcome)
    /\ nops' = nops + 1
    /\ UNCHANGED <<batchVars, pureVars>>
    /\ UNCHANGED <<opts, spans, call, wire, tcStream, iters>>

\* Fetch up to the delegate call
FetchCall(consumerName) ==
    /\ MayStart
    /\ LET st == startFetchSpan(spans, consumerName)
       IN  /\ spans' = st.spans
           /\ call' = InCall("Fetch", Background, NoMsg, st.id, st.ctx, 0)
    /\ nops' = nops + 1
    /\ UNCHANGED <<batchVars, pureVars>>
    /\ UNCHANGED <<opts, wire, last, tcStream, iters>>

\* Fetch from the delegate's return on; a panic of the delegate unwinds
\* through no deferred call
FetchReturn(d) ==
    /\ call.op = "Fetch"
    /\ spans' = CASE d.k = "err" ->
                       SpanEnd(SetStatusError(RecordError(spans, call.span, ErrorText(d.e)),
                                              call.span, ErrorText(d.e)), call.span)
                  [] d.k = "ok" -> SpanEnd(spans, call.span)
                  [] OTHER -> spans
    /\ last' = Done(call, d, CASE d.k = "err" -> Err(d.e)
                               [] d.k = "ok"  -> Ok(d.v, NoMsg)
                               [] OTHER       -> Panic(d.v))
    /\ call' = Idle
    /\ UNCHANGED <<batchVars, pureVars>>
    /\ UNCHANGED <<opts, wire, nops, tcStream, iters>>

\* FetchBytes up to the delegate call
FetchBytesCall(consumerName) ==
    /\ MayStart
    /\ LET st == startFetchSpan(spans, consumerName)
       IN  /\ spans' = st.spans
           /\ call' = InCall("FetchBytes", Background, NoMsg, st.id, st.ctx, 0)
    /\ nops' = nops + 1
    /\ UNCHANGED <<batchVars, pureVars>>
    /\ UNCHANGED <<opts, wire, last, tcStream, iters>>

\* FetchBytes from the delegate's return on
FetchBytesReturn(d) ==
    /\ call.op = "FetchBytes"
    /\ spans' = CASE d.k = "err" ->
                       SpanEnd(SetStatusError(RecordError(spans, call.span, ErrorText(d.e)),
                                              call.span, ErrorText(d.e)), call.span)
                  [] d.k = "ok" -> SpanEnd(spans, call.span)
                  [] OTHER -> spans
    /\ last' = Done(call, d, CASE d.k = "err" -> Err(d.e)
                               [] d.k = "ok"  -> Ok(d.v, NoMsg)
                               [] OTHER       -> Panic(d.v))
    /\ call' = Idle
    /\ UNCHANGED <<batchVars, pureVars>>
    /\ UNCHANGED <<opts, wire, nops, tcStream, iters>>

\* FetchNoWait up to the delegate call
FetchNoWaitCall(consumerName) ==
    /\ MayStart
    /\ LET st == startFetchSpan(spans, consumerName)
       IN  /\ spans' = st.spans
           /\ call' = InCall("FetchNoWait", Background, NoMsg, st.id, st.ctx, 0)
    /\ nops' = nops + 1
    /\ UNCHANGED <<batchVars, pureVars>>
    /\ UNCHANGED <<opts, wire, last, tcStream, iters>>

\* FetchNoWait from the delegate's return on
FetchNoWaitReturn(d) ==
    /\ call.op = "FetchNoWait"
    /\ spans' = CASE d.k = "err" ->
                       SpanEnd(SetStatusError(RecordError(spans, call.span, ErrorText(d.e)),
                                              call.span, ErrorText(d.e)), call.span)
                  [] d.k = "ok" -> SpanEnd(spans, call.span)
                  [] OTHER -> spans
    /\ last' = Done(call, d, CASE d.k = "err" -> Err(d.e)
                               [] d.k = "ok"  -> Ok(d.v, NoMsg)
                               [] OTHER       -> Panic(d.v))
    /\ call' = Idle
    /\ UNCHANGED <<batchVars, pureVars>>
    /\ UNCHANGED <<opts, wire, nops, tcStream, iters>>

\* TracedConsumer.Next up to the delegate call; the span's context is dropped
NextCall(consumerName) ==
    /\ MayStart
    /\ LET st == startFetchSpan(spans, consumerName)
       IN  /\ spans' = st.spans
           /\ call' = InCall("Next", Background, NoMsg, st.id, Background, 0)
    /\ nops' = nops + 1
    /\ UNCHANGED <<batchVars, pureVars>>
    /\ UNCHANGED <<opts, wire, last, tcStream, iters>>

\* NextReturn with the error recorded and the status set after span.End()
NextReturn_StatusAfterEnd(d) ==
    /\ call.op = "Next"
    /\ spans' = CASE d.k = "err" ->
                       SetStatusError(RecordError(SpanEnd(spans, call.span),
                                                  call.span, ErrorText(d.e)),
                                      call.span, ErrorText(d.e))
                  [] d.k = "ok" -> SpanEnd(spans, call.span)
                  [] OTHER -> spans
    /\ last' = CASE d.k = "err" -> Done(call, d, Err(d.e))
                 [] d.k = "ok"  ->
                      Done([call EXCEPT !.msg = d.msg,
                                        !.tctx = extractContext(Background, d.msg),
                                        !.ext = extractContextRun(Background, d.msg).ext],
                           d, Ok(d.v, d.msg))
                 [] OTHER       -> Done(call, d, Panic(d.v))
    /\ call' = Idle
    /\ UNCHANGED <<batchVars, pureVars>>
    /\ UNCHANGED <<opts, wire, nops, tcStream, iters>>

\* TracedConsumer.Next from the delegate's return on: on success the message
\* is wrapped with the context extracted over the empty context
NextReturn(d) ==
    /\ call.op = "Next"
    /\ spans' = CASE d.k = "err" ->
                       SpanEnd(SetStatusError(RecordError(spans, call.span, ErrorText(d.e)),
                                              call.span, ErrorText(d.e)), call.span)
                  [] d.k = "ok" -> SpanEnd(spans, call.span)
                  [] OTHER -> spans
    /\ last' = CASE d.k = "err" -> Done(call, d, Err(d.e))
                 [] d.k = "ok"  ->
                      Done([call EXCEPT !.msg = d.msg,
                                        !.tctx = extractContext(Background, d.msg),
                                        !.ext = extractContextRun(Background, d.msg).ext],
                           d, Ok(d.v, d.msg))
                 [] OTHER       -> Done(call, d, Panic(d.v))
    /\ call' = Idle
    /\ UNCHANGED <<batchVars, pureVars>>
    /\ UNCHANGED <<opts, wire, nops, tcStream, iters>>

\* TracedConsumer.Messages up to the delegate call: no span
MessagesCall ==
    /\ MayStart
    /\ call' = InCall("Messages", Background, NoMsg, 0, Background, 0)
    /\ nops' = nops + 1
    /\ UNCHANGED <<batchVars, pureVars>>
    /\ UNCHANGED <<opts, spans, wire, last, tcStream, iters>>

\* MessagesReturn with the delegate's error dropped: a nil iterator and a
\* nil error are returned
MessagesReturn_SwallowsError(d) ==
    /\ call.op = "Messages"
    /\ last' = Done(call, d, CASE d.k = "err" -> Ok("nil", NoMsg)
                               [] d.k = "ok"  -> Ok(d.v, NoMsg)
                               [] OTHER       -> Panic(d.v))
    /\ iters' = IF d.k = "ok" THEN iters + 1 ELSE iters
    /\ call' = Idle
    /\ UNCHANGED <<batchVars, pureVars>>
    /\ UNCHANGED <<opts, spans, wire, nops, tcStream>>

\* TracedConsumer.Messages from the delegate's return on
MessagesReturn(d) ==
    /\ call.op = "Messages"
    /\ last' = Done(call, d, CASE d.k = "err" -> Err(d.e)
                               [] d.k = "ok"  -> Ok(d.v, NoMsg)
                               [] OTHER       -> Panic(d.v))
    /\ iters' = IF d.k = "ok" THEN iters + 1 ELSE iters
    /\ call' = Idle
    /\ UNCHANGED <<batchVars, pureVars>>
    /\ UNCHANGED <<opts, spans, wire, nops, tcStream>>

\* TracedMessagesContext.Next up to the delegate call: no span
IterNextCall ==
    /\ MayStart
    /\ iters > 0
    /\ call' = InCall("IterNext", Background, NoMsg, 0, Background, 0)
    /\ nops' = nops + 1
    /\ UNCHANGED <<batchVars, pureVars>>
    /\ UNCHANGED <<opts, spans, wire, last, tcStream, iters>>

\* TracedMessagesContext.Next from the delegate's return on
IterNextReturn(d) ==
    /\ call.op = "IterNext"
    /\ last' = CASE d.k = "err" -> Done(call, d, Err(d.e))
                 [] d.k = "ok"  ->
                      Done([call EXCEPT !.msg = d.msg,
                                        !.tctx = extractContext(Background, d.msg),
                                        !.ext = extractContextRun(Background, d.msg).ext],
                           d, Ok(d.v, d.msg))
                 [] OTHER       -> Done(call, d, Panic(d.v))
    /\ call' = Idle
    /\ UNCHANGED <<batchVars, pureVars>>
    /\ UNCHANGED <<opts, spans, wire, nops, tcStream, iters>>

\* TracedConsumer.Consume up to the delegate call
ConsumeCall ==
    /\ MayStart
    /\ call' = InCall("Consume", Background, NoMsg, 0, Background, 0)
    /\ nops' = nops + 1
    /\ UNCHANGED <<batchVars, pureVars>>
    /\ UNCHANGED <<opts, spans, wire, last, tcStream, iters>>

\* TracedConsumer.Consume: whatever the delegate returns
ConsumeReturn(d) ==
    /\ call.op = "Consume"
    /\ last' = Done(call, d, d)
    /\ call' = Idle
    /\ UNCHANGED <<batchVars, pureVars>>
    /\ UNCHANGED <<opts, spans, wire, nops, tcStream, iters>>

----------------------------------------------------------------------------
(* Callback handler wrapper *)

\* HandlerInvoke with the precedence reversed: the stream of the message
\* metadata, when there is one, wins over the WithStream override
HandlerInvoke_MetadataWins(m, origin) ==
    /\ MayStart
    /\ ~m.isNil
    /\ LET parentCtx == IF m.header.isNil THEN Background
                        ELSE PropExtract(Background, m.header)
           stream    == IF m.meta.ok /\ m.meta.stream # "" THEN m.meta.stream
                        ELSE opts.stream
           consumer  == IF m.meta.ok THEN m.meta.consumer ELSE ""
           st        == TracerStart(spans, parentCtx, "process " \o stream, "consumer",
                                    processAttributes(stream, consumer, m.subject,
                                                      "", Len(m.data)))
       IN  /\ spans' = st.spans
           /\ call' = [InCall("Handler", Background, m, st.id, st.ctx, origin)
                           EXCEPT !.arg = m,
                                  !.ext = IF m.header.isNil THEN 0 ELSE 1]
    /\ nops' = nops + 1
    /\ UNCHANGED <<batchVars, pureVars>>
    /\ UNCHANGED <<opts, wire, last, tcStream, iters>>

\* HandlerInvoke with the TracedMsg built over the extracted parent context
\* instead of the context tracer.Start returned
HandlerInvoke_PassesParentCtx(m, origin) ==
    /\ MayStart
    /\ ~m.isNil
    /\ LET parentCtx == IF m.header.isNil THEN Background
                        ELSE PropExtract(Background, m.header)
           stream    == IF opts.stream # "" THEN opts.stream
                        ELSE IF m.meta.ok THEN m.meta.stream ELSE ""
           consumer  == IF m.meta.ok THEN m.meta.consumer ELSE ""
           st        == TracerStart(spans, parentCtx, "process " \o stream, "consumer",
                                    processAttributes(stream, consumer, m.subject,
                                                      "", Len(m.data)))
       IN  /\ spans' = st.spans
           /\ call' = [InCall("Handler", Background, m, st.id, parentCtx, origin)
                           EXCEPT !.arg = m,
                                  !.ext = IF m.header.isNil THEN 0 ELSE 1]
    /\ nops' = nops + 1
    /\ UNCHANGED <<batchVars, pureVars>>
    /\ UNCHANGED <<opts, wire, last, tcStream, iters>>

\* the handler returned by MessageHandlerWithTracingProviders, up to the call
\* of the user handler: extraction, stream resolution, process span, TracedMsg
HandlerInvoke(m, origin) ==
    /\ MayStart
    /\ ~m.isNil
    /\ LET parentCtx == IF m.header.isNil THEN Background
                        ELSE PropExtract(Background, m.header)
           stream    == IF opts.stream # "" THEN opts.stream
                        ELSE IF m.meta.ok THEN m.meta.stream ELSE ""
           consumer  == IF m.meta.ok THEN m.meta.consumer ELSE ""
           st        == TracerStart(spans, parentCtx, "process " \o stream, "consumer",
                                    processAttributes(stream, consumer, m.subject,
                                                      "", Len(m.data)))
       IN  /\ spans' = st.spans
           /\ call' = [InCall("Handler", Background, m, st.id, st.ctx, origin)
                           EXCEPT !.arg = m,
                                  !.ext = IF m.header.isNil THEN 0 ELSE 1]
    /\ nops' = nops + 1
    /\ UNCHANGED <<batchVars, pureVars>>
    /\ UNCHANGED <<opts, wire, last, tcStream, iters>>

\* HandlerDeferred with the final span.End() also reached after a panic
\* (the recovery branch does not leave the deferred function)
HandlerDeferred_EndsTwice(u) ==
    /\ call.op = "Handler"
    /\ IF u.k = "panic"
       THEN /\ spans' = SpanEnd(SpanEnd(SetStatusError(
                            RecordError(spans, call.span, "panic: " \o u.v),
                            call.span, "panic in handler"), call.span), call.span)
            /\ last' = Done(call, u, Panic(u.v))
       ELSE /\ spans' = SpanEnd(spans, call.span)
            /\ last' = Done(call, u, Ok("nil", NoMsg))
    /\ call' = Idle
    /\ UNCHANGED <<batchVars, pureVars>>
    /\ UNCHANGED <<opts, wire, nops, tcStream, iters>>

\* HandlerDeferred without the re-panic: the recovered panic becomes a
\* normal return
HandlerDeferred_Swallows(u) ==
    /\ call.op = "Handler"
    /\ IF u.k = "panic"
       THEN /\ spans' = SpanEnd(SetStatusError(
                            RecordError(spans, call.span, "panic: " \o u.v),
                            call.span, "panic in handler"), call.span)
            /\ last' = Done(call, u, Ok("nil", NoMsg))
       ELSE /\ spans' = SpanEnd(spans, call.span)
            /\ last' = Done(call, u, Ok("nil", NoMsg))
    /\ call' = Idle
    /\ UNCHANGED <<batchVars, pureVars>>
    /\ UNCHANGED <<opts, wire, nops, tcStream, iters>>

\* the deferred function of the handler, once the user handler has returned
\* or panicked (u): record, set status, end, re-panic; or just end
HandlerDeferred(u) ==
    /\ call.op = "Handler"
    /\ IF u.k = "panic"
       THEN /\ spans' = SpanEnd(SetStatusError(
                            RecordError(spans, call.span, "panic: " \o u.v),
                            call.span, "panic in handler"), call.span)
            /\ last' = Done(call, u, Panic(u.v))
       ELSE /\ spans' = SpanEnd(spans, call.span)
            /\ last' = Done(call, u, Ok("nil", NoMsg))
    /\ call' = Idle
    /\ UNCHANGED <<batchVars, pureVars>>
    /\ UNCHANGED <<opts, wire, nops, tcStream, iters>>

----------------------------------------------------------------------------
(* TracedMsg: NewTracedMsg and StartProcessSpan *)

\* NewTracedMsgWithPropagator (NewTracedMsg, with the global propagator): the
\* message and the context extracted over the empty context
NewTracedMsgWithPropagator(msg) ==
    [msg |-> msg,
     ctx |-> IF msg.isNil THEN Background
             ELSE IF msg.header.isNil THEN Background
             ELSE PropExtract(Background, msg.header)]

\* the stream option a StartProcessSpan call is given: none, or WithStream
StreamOptions == {"", "OVR"}

\* StartProcessSpanWithTracer on NewTracedMsg(msg), with the options of the
\* call: metadata, stream override, the process span under m.Context()
StartProcessSpanCall(msg, override) ==
    /\ MayStart
    /\ LET m        == NewTracedMsgWithPropagator(msg)
           meta     == IF ~msg.isNil /\ msg.meta.ok THEN msg.meta.stream ELSE ""
           consumer == IF ~msg.isNil /\ msg.meta.ok THEN msg.meta.consumer ELSE ""
           subject  == IF ~msg.isNil THEN msg.subject ELSE ""
           bodySize == IF ~msg.isNil THEN Len(msg.data) ELSE 0
           stream   == IF override # "" THEN override ELSE meta
           st       == TracerStart(spans, m.ctx, "process " \o stream, "consumer",
                                   processAttributes(stream, consumer, subject, "",
                                                     bodySize))
       IN  /\ spans' = st.spans
           /\ call' = [InCall("StartProcessSpan", m.ctx, msg, st.id, st.ctx, 0)
                           EXCEPT !.arg = msg, !.override = override]
    /\ nops' = nops + 1
    /\ UNCHANGED <<batchVars, pureVars>>
    /\ UNCHANGED <<opts, wire, last, tcStream, iters>>

\* calls of one end function that a caller makes
MaxEndCalls == 2

\* the end function StartProcessSpan returned, called with err ("nil": none).
\* The caller holds the function for as long as it likes: it may call it
\* again after a first call, as with a deferred endSpan(nil) behind an explicit
\* endSpan(err). Every call runs the same body, on the same span.
EndFunc(err) ==
    LET c    == IF call.op # "none" THEN call ELSE last
        made == IF c.op = "StartProcessSpan"
                THEN Cardinality({i \in 1..Len(spans[c.span].calls) :
                                     spans[c.span].calls[i][1] = "End"})
                ELSE 0
    IN  /\ c.op = "StartProcessSpan"
        /\ made < MaxEndCalls
        /\ spans' = IF err # "nil"
                    THEN SpanEnd(SetStatusError(RecordError(spans, c.span, ErrorText(err)),
                                                c.span, ErrorText(err)), c.span)
                    ELSE SpanEnd(spans, c.span)
        /\ last' = Done(c, NoOutcome, Ok("nil", NoMsg))
        /\ call' = Idle
        /\ UNCHANGED <<batchVars, pureVars>>
        /\ UNCHANGED <<opts, wire, nops, tcStream, iters>>

----------------------------------------------------------------------------
(* Specification of the synchronous operations *)

\* options values: defaults, with the async-span toggle and the stream
\* override as the options can set them
OptionValues ==
    [tracerName : {"otx/nats"}, processSpans : {TRUE}, asyncSpans : BOOLEAN,
     stream : {"", "OVR"}]

\* the stream argument of WrapConsumer: a name, or empty
TargetStreams == {"ORDERS", ""}

\* the tracer tracker.Tracer() returns before any InitTracing call
NoTracer == [provider |-> "nil", name |-> ""]

\* no constructor or function call made
PureIdle ==
    /\ tracker = NoTracer
    /\ args = <<>>
    /\ result = <<>>

BatchIdle ==
    /\ msgChan = 0
    /\ chans = <<>>
    /\ native = <<>>
    /\ producers = <<>>
    /\ tasks = <<>>
    /\ received = <<>>

Init ==
    /\ opts \in OptionValues
    /\ tcStream \in TargetStreams
    /\ spans = <<>>
    /\ call = Idle
    /\ wire = <<>>
    /\ last = NoLast
    /\ nops = 0
    /\ iters = 0
    /\ BatchIdle
    /\ PureIdle

Next ==
    \/ \E c \in CallerCtxs, s \in Subjects, b \in Datas, p \in BOOLEAN :
          PublishCall(c, s, b, p)
    \/ \E d \in PublishOutcomes : PublishReturn(d)
    \/ \E c \in CallerCtxs, m \in OutMsgs, p \in BOOLEAN : PublishMsgCall(c, m, p)
    \/ \E d \in PublishOutcomes : PublishMsgReturn(d)
    \/ \E s \in Subjects, b \in Datas, p \in BOOLEAN : PublishAsyncCall(s, b, p)
    \/ \E d \in AsyncOutcomes : PublishAsyncReturn(d)
    \/ \E m \in OutMsgs, p \in BOOLEAN : PublishAsyncMsgCall(m, p)
    \/ \E d \in AsyncOutcomes : PublishAsyncMsgReturn(d)
    \/ \E i \in 1..Len(wire), r \in Resolutions : FutureResolve(i, r)
    \/ \E n \in CachedNames : FetchCall(n)
    \/ \E d \in FetchOutcomes : FetchReturn(d)
    \/ \E n \in CachedNames : FetchBytesCall(n)
    \/ \E d \in FetchOutcomes : FetchBytesReturn(d)
    \/ \E n \in CachedNames : FetchNoWaitCall(n)
    \/ \E d \in FetchOutcomes : FetchNoWaitReturn(d)
    \/ \E n \in CachedNames : NextCall(n)
    \/ \E d \in NextOutcomes : NextReturn(d)
    \/ MessagesCall
    \/ \E d \in MessagesOutcomes : MessagesReturn(d)
    \/ IterNextCall
    \/ \E d \in NextOutcomes : IterNextReturn(d)
    \/ \E c \in CallerCtxs, m \in ExtractMsgs : ExtractContextCall(c, m)
    \/ \E c \in CallerCtxs, h \in ExtractHeaders : ExtractNATSCall(c, h)
    \/ ConsumeCall
    \/ \E d \in ConsumeOutcomes : ConsumeReturn(d)
    \/ \E m \in ForeignMsgs : HandlerInvoke(m, 0)
    \/ \E i \in 1..Len(wire) : HandlerInvoke(Delivered(wire[i].msg), i)
    \/ \E u \in UserOutcomes : HandlerDeferred(u)
    \/ \E m \in ExtractMsgs, o \in StreamOptions : StartProcessSpanCall(m, o)
    \/ \E e \in {"nil", "e1"} : EndFunc(e)

Spec == Init /\ [][Next]_vars

----------------------------------------------------------------------------
(* Reading a span's call log *)

EndCalls(sp) == {i \in 1..Len(sp.calls) : sp.calls[i][1] = "End"}

\* how many times the span was ended
Ends(sp) == Cardinality(EndCalls(sp))

\* the calls made on the span before its first End (all of them if none)
BeforeEnd(sp) ==
    {i \in 1..Len(sp.calls) : \A j \in EndCalls(sp) : i < j}

\* the descriptions of the Error statuses set before the span ended
ErrorStatus(sp) ==
    {sp.calls[i][2] : i \in {j \in BeforeEnd(sp) : sp.calls[j][1] = "SetStatus"}}

\* the error events recorded before the span ended
ErrorEvents(sp) ==
    {sp.calls[i][2] : i \in {j \in BeforeEnd(sp) : sp.calls[j][1] = "RecordError"}}

SyncPublishOps  == {"Publish", "PublishMsg"}
AsyncPublishOps == {"PublishAsync", "PublishAsyncMsg"}
PublishOps      == SyncPublishOps \cup AsyncPublishOps
FetchOps        == {"Fetch", "FetchBytes", "FetchNoWait", "Next"}
DelegatingOps   == PublishOps \cup FetchOps \cup {"Messages", "IterNext", "Consume"}

\* the operation a step starts (the call in progress, or the completed call
\* when the operation ran to its end in one step)
Current == IF call.op # "none" THEN call ELSE last

\* a step that starts an operation of the set
Starts(ops) == call.op = "none" /\ nops' = nops + 1 /\ Current'.op \in ops

\* a step that completes an operation of the set
Completes(ops) ==
    /\ call'.op = "none"
    /\ \/ call.op \in ops
       \/ Starts(ops)

----------------------------------------------------------------------------
(* C1 *)

\* C1: trace continuity across a message hop. A producer span started by
\* Publish or PublishMsg under a caller context with active span P of trace T
\* has trace T and parent P; and the process span of a handler invocation on
\* the delivered message has the producer span's trace (T) and the producer
\* span as its parent.
C1_TraceContinuity ==
    /\ (last.op \in SyncPublishOps /\ IsValid(last.ctx)) =>
          /\ spans[last.span].trace = last.ctx.trace
          /\ spans[last.span].parent = last.ctx.span
    /\ \A c \in {call, last} :
          (c.op = "Handler" /\ c.origin # 0) =>
             LET w == wire[c.origin]
             IN  w.op \in SyncPublishOps =>
                    /\ spans[c.span].trace = spans[w.span].trace
                    /\ spans[c.span].parent = w.span
                    /\ spans[w.span].kind = "producer"
                    /\ IsValid(w.ctx) =>
                          /\ spans[c.span].trace = w.ctx.trace
                          /\ spans[w.span].parent = w.ctx.span

\* a handler has run on a message PublishMsg sent under parent P, whose
\* header map held a stale traceparent before the call
C1_Witness ==
    /\ last.op = "Handler"
    /\ last.origin # 0
    /\ wire[last.origin].op = "PublishMsg"
    /\ wire[last.origin].ctx = ParentCtx
    /\ "x-app" \in wire[last.origin].msg.header.keys
    /\ spans[last.span].trace = ParentCtx.trace

----------------------------------------------------------------------------
(* C2, C3 *)

\* C2: every invocation of the wrapped handler starts exactly one span, of
\* kind consumer, and that span is ended exactly once when the invocation is
\* over, whether the user handler returned or panicked.
C2_OneProcessSpanEndedOnce ==
    [][ /\ Starts({"Handler"}) =>
              /\ Len(spans') = Len(spans) + 1
              /\ Current'.span = Len(spans')
              /\ spans'[Len(spans')].kind = "consumer"
              /\ Ends(spans'[Len(spans')]) = 0
        /\ Completes({"Handler"}) =>
              /\ Len(spans') = Len(spans)
              /\ Ends(spans[call.span]) = 0
              /\ Ends(spans'[call.span]) = 1 ]_vars

\* a handler invocation whose user handler panicked is over
C2_Witness ==
    /\ last.op = "Handler"
    /\ last.d.k = "panic"
    /\ Ends(spans[last.span]) = 1

\* C3: when the user handler panics with v, the wrapped handler panics with
\* the same v, and by then the span holds, in this order, an error event, the
\* Error status and its one End; the panic never becomes a normal return.
C3_PanicRecordedThenReraised ==
    (last.op = "Handler" /\ last.d.k = "panic") =>
        /\ last.ret = Panic(last.d.v)
        /\ LET c == spans[last.span].calls
           IN  /\ Len(c) = 3
               /\ c[1][1] = "RecordError"
               /\ c[2][1] = "SetStatus"
               /\ c[3][1] = "End"

\* the user handler panicked with v2 and the wrapped handler re-raised v2
C3_Witness ==
    /\ last.op = "Handler"
    /\ last.d = Panic("v2")
    /\ last.ret.k = "panic"
    /\ last.ret.v = "v2"

----------------------------------------------------------------------------
(* C4, C5 *)

\* the publish operations that run with a span under the current options
SpanPublishOps ==
    IF opts.asyncSpans THEN PublishOps ELSE SyncPublishOps

\* C4: each call of Publish, PublishMsg and, with async spans on,
\* PublishAsync and PublishAsyncMsg starts exactly one span, of kind
\* producer, and has ended it exactly once when the call is over: on
\* success, on a delegate error, on a panic of the delegate or the propagator.
C4_ProducerSpanEndedOnce ==
    [][ /\ Starts(SpanPublishOps) =>
              /\ Len(spans') = Len(spans) + 1
              /\ Current'.span = Len(spans')
              /\ spans'[Len(spans')].kind = "producer"
        /\ Completes(SpanPublishOps) =>
              /\ Len(spans') = Len(spans) + (IF call.op = "none" THEN 1 ELSE 0)
              /\ Ends(spans'[last'.span]) = 1
              /\ call.op # "none" => Ends(spans[call.span]) = 0 ]_vars

\* both panic exits have been taken: the delegate's and, before it, the
\* propagator's (the latter in an async publish)
C4_Witness ==
    /\ last.op = "PublishAsyncMsg"
    /\ last.ret = Panic("inject")
    /\ Ends(spans[last.span]) = 1
    /\ Len(spans) = 2
    /\ Ends(spans[1]) = 1

\* C5 as claimed: the receive span of a fetch-family call is closed exactly
\* once on every exit path of the call, a panic of the underlying consumer
\* included.
C5_ReceiveSpanEndedOnce ==
    last.op \in FetchOps => Ends(spans[last.span]) = 1

----------------------------------------------------------------------------
(* C6, C7 *)

\* C6: a delegating operation returns an error if and only if its delegate
\* returned one, and then it is the delegate's error value itself.
C6_DelegateErrorUnchanged ==
    last.op \in DelegatingOps =>
        /\ (last.ret.k = "err") <=> (last.d.k = "err")
        /\ last.d.k = "err" => last.ret.e = last.d.e
        /\ last.d.k = "ok" => last.ret.k = "ok"

\* the delegate of a fetch returned e2 and the caller got e2
C6_Witness ==
    /\ last.op = "FetchNoWait"
    /\ last.d = Err("e2")
    /\ last.ret.e = "e2"

\* C7: the span of a publish-family or fetch-family operation ends with
\* status Error if and only if the delegate returned an error e; the status
\* description is then e's message and an error event precedes the End.
C7_ErrorStatusIffDelegateError ==
    (last.op \in PublishOps \cup FetchOps /\ last.span # 0
         /\ Ends(spans[last.span]) > 0) =>
        LET sp == spans[last.span]
        IN  /\ (ErrorStatus(sp) # {}) <=> (last.d.k = "err")
            /\ last.d.k = "err" =>
                  /\ ErrorStatus(sp) = {ErrorText(last.d.e)}
                  /\ ErrorEvents(sp) = {ErrorText(last.d.e)}

\* an async publish whose delegate returned e1 ended its span with Error
C7_Witness ==
    /\ last.op = "PublishAsync"
    /\ last.d = Err("e1")
    /\ last.span # 0
    /\ ErrorStatus(spans[last.span]) = {ErrorText("e1")}
    /\ Ends(spans[last.span]) = 1

----------------------------------------------------------------------------
(* TracedMessageBatch: Messages() and its background producer *)

Tasks == {"t1", "t2"}

\* header maps of the messages of a batch: none, or one of two remote parents
BatchHeaders ==
    { NilHeader,
      CarrierSet(MakeHeader, "traceparent", <<"00", 5, 50, "01">>),
      CarrierSet(MakeHeader, "traceparent", <<"00", 6, 60, "01">>) }

\* the i-th message of a batch: its payload is i
BatchMsg(i, h) ==
    [isNil |-> FALSE, subject |-> "orders.created", data |-> <<i>>, header |-> h,
     meta |-> [ok |-> TRUE, stream |-> "ORDERS", consumer |-> "c1"]]

\* the batches of a given length
Batches(n) ==
    { [i \in 1..n |-> BatchMsg(i, hs[i])] : hs \in [1..n -> BatchHeaders] }

\* the error the underlying fetch ends with: none, or a terminal error
TerminalErrors == {"nil", "e1"}

\* TracedMessageBatch.ctx as wrapBatch set it: the context Fetch got from
\* startFetchSpan
BatchCtx == last.tctx

\* MessagesCheck without the nil check: every call makes a channel
MessagesCheck_NoNilCheck(t) ==
    /\ tasks[t].pc = "idle"
    /\ tasks[t].calls < MaxCalls
    /\ tasks' = [tasks EXCEPT ![t].pc = "make"]
    /\ UNCHANGED <<msgChan, chans, native, producers, received>>
    /\ UNCHANGED <<syncVars, pureVars>>

\* Messages(), the nil check: a non-nil msgChan is returned at once
MessagesCheck(t) ==
    /\ tasks[t].pc = "idle"
    /\ tasks[t].calls < MaxCalls
    /\ IF msgChan # 0
       THEN tasks' = [tasks EXCEPT ![t].calls = @ + 1,
                                   ![t].got = @ \cup {msgChan}]
       ELSE tasks' = [tasks EXCEPT ![t].pc = "make"]
    /\ UNCHANGED <<msgChan, chans, native, producers, received>>
    /\ UNCHANGED <<syncVars, pureVars>>

\* Messages(): b.msgChan = make(chan *TracedMsg)
MessagesMake(t) ==
    /\ tasks[t].pc = "make"
    /\ chans' = Append(chans, [closes |-> 0])
    /\ msgChan' = Len(chans) + 1
    /\ tasks' = [tasks EXCEPT ![t].pc = "go"]
    /\ UNCHANGED <<native, producers, received>>
    /\ UNCHANGED <<syncVars, pureVars>>

\* Messages(): the go statement
MessagesGo(t) ==
    /\ tasks[t].pc = "go"
    /\ producers' = Append(producers, [pc |-> "start", closing |-> 0, dst |-> 0,
                                       cur |-> [msg |-> NoMsg, ctx |-> Background]])
    /\ tasks' = [tasks EXCEPT ![t].pc = "ret"]
    /\ UNCHANGED <<msgChan, chans, native, received>>
    /\ UNCHANGED <<syncVars, pureVars>>

\* Messages(): return b.msgChan
MessagesReturnChan(t) ==
    /\ tasks[t].pc = "ret"
    /\ tasks' = [tasks EXCEPT ![t].pc = "idle", ![t].calls = @ + 1,
                              ![t].got = @ \cup {msgChan}]
    /\ UNCHANGED <<msgChan, chans, native, producers, received>>
    /\ UNCHANGED <<syncVars, pureVars>>

\* the producer goroutine begins: defer close(b.msgChan) fixes the channel
\* to close
ProducerStart(p) ==
    /\ producers[p].pc = "start"
    /\ producers' = [producers EXCEPT ![p].pc = "range", ![p].closing = msgChan]
    /\ UNCHANGED <<msgChan, chans, native, tasks, received>>
    /\ UNCHANGED <<syncVars, pureVars>>

\* ProducerTake with a receive span started for every message taken
ProducerTake_SpanPerMessage(p) ==
    /\ producers[p].pc = "range"
    /\ native.queue # <<>>
    /\ LET m  == Head(native.queue)
           st == startFetchSpan(spans, "c1")
       IN  /\ producers' = [producers EXCEPT
                  ![p].pc = "send", ![p].dst = msgChan,
                  ![p].cur = [msg |-> m, ctx |-> extractContext(BatchCtx, m)]]
           /\ spans' = SpanEnd(st.spans, st.id)
    /\ native' = [native EXCEPT !.queue = Tail(@)]
    /\ UNCHANGED <<msgChan, chans, tasks, received>>
    /\ UNCHANGED <<opts, call, wire, last, nops, tcStream, iters>>
    /\ UNCHANGED pureVars

\* ProducerTake with the extraction made over the context of the message
\* yielded before instead of the batch's context
ProducerTake_ChainsContext(p) ==
    /\ producers[p].pc = "range"
    /\ native.queue # <<>>
    /\ LET m    == Head(native.queue)
           base == IF received = <<>> THEN BatchCtx
                   ELSE received[Len(received)].tm.ctx
       IN  producers' = [producers EXCEPT
               ![p].pc = "send", ![p].dst = msgChan,
               ![p].cur = [msg |-> m, ctx |-> extractContext(base, m)]]
    /\ native' = [native EXCEPT !.queue = Tail(@)]
    /\ UNCHANGED <<msgChan, chans, tasks, received>>
    /\ UNCHANGED <<syncVars, pureVars>>

\* ProducerTake with a send that does not wait for a receiver: a producer
\* whose message is still pending pulls the next one over it
ProducerTake_Overwrites(p) ==
    /\ producers[p].pc \in {"range", "send"}
    /\ native.queue # <<>>
    /\ LET m == Head(native.queue)
       IN  producers' = [producers EXCEPT
               ![p].pc = "send", ![p].dst = msgChan,
               ![p].cur = [msg |-> m, ctx |-> extractContext(BatchCtx, m)]]
    /\ native' = [native EXCEPT !.queue = Tail(@)]
    /\ UNCHANGED <<msgChan, chans, tasks, received>>
    /\ UNCHANGED <<syncVars, pureVars>>

\* one iteration of the range loop up to the send: take the next native
\* message, wrap it with the context extracted over the batch's context, and
\* offer it on b.msgChan
ProducerTake(p) ==
    /\ producers[p].pc = "range"
    /\ native.queue # <<>>
    /\ LET m == Head(native.queue)
       IN  producers' = [producers EXCEPT
               ![p].pc = "send", ![p].dst = msgChan,
               ![p].cur = [msg |-> m, ctx |-> extractContext(BatchCtx, m)]]
    /\ native' = [native EXCEPT !.queue = Tail(@)]
    /\ UNCHANGED <<msgChan, chans, tasks, received>>
    /\ UNCHANGED <<syncVars, pureVars>>

\* a caller task receives from a channel Messages() returned to it: it takes
\* the value of a producer blocked sending on that channel
Receive(t, c, p) ==
    /\ c \in tasks[t].got
    /\ chans[c].closes = 0
    /\ producers[p].pc = "send"
    /\ producers[p].dst = c
    /\ received' = Append(received, [ch |-> c, tm |-> producers[p].cur])
    /\ producers' = [producers EXCEPT ![p].pc = "range"]
    /\ UNCHANGED <<msgChan, chans, native, tasks>>
    /\ UNCHANGED <<syncVars, pureVars>>

\* a caller task finds a channel Messages() returned to it closed
ReceiveClosed(t, c) ==
    /\ c \in tasks[t].got
    /\ chans[c].closes > 0
    /\ c \notin tasks[t].closed
    /\ tasks' = [tasks EXCEPT ![t].closed = @ \cup {c}]
    /\ UNCHANGED <<msgChan, chans, native, producers, received>>
    /\ UNCHANGED <<syncVars, pureVars>>

\* a send on a channel that has been closed panics
ProducerSendOnClosed(p) ==
    /\ producers[p].pc = "send"
    /\ chans[producers[p].dst].closes > 0
    /\ producers' = [producers EXCEPT ![p].pc = "panicked"]
    /\ chans' = [chans EXCEPT ![producers[p].closing].closes = @ + 1]
    /\ UNCHANGED <<msgChan, native, tasks, received>>
    /\ UNCHANGED <<syncVars, pureVars>>

\* ProducerExit without the deferred close: the goroutine ends and leaves
\* the channel open
ProducerExit_NoClose(p) ==
    /\ producers[p].pc = "range"
    /\ native.queue = <<>>
    /\ native.closed
    /\ producers' = [producers EXCEPT ![p].pc = "done"]
    /\ UNCHANGED <<msgChan, chans, native, tasks, received>>
    /\ UNCHANGED <<syncVars, pureVars>>

\* the native sequence has ended: the range loop exits and the deferred
\* close runs (a close of a closed channel panics)
ProducerExit(p) ==
    /\ producers[p].pc = "range"
    /\ native.queue = <<>>
    /\ native.closed
    /\ producers' = [producers EXCEPT
           ![p].pc = IF chans[producers[p].closing].closes = 0
                     THEN "done" ELSE "panicked"]
    /\ chans' = [chans EXCEPT ![producers[p].closing].closes = @ + 1]
    /\ UNCHANGED <<msgChan, native, tasks, received>>
    /\ UNCHANGED <<syncVars, pureVars>>

\* the underlying batch puts its next message on its native channel
NativeDeliver ==
    /\ native.todo # <<>>
    /\ native' = [native EXCEPT !.queue = Append(@, Head(native.todo)),
                                !.todo = Tail(@)]
    /\ UNCHANGED <<msgChan, chans, producers, tasks, received>>
    /\ UNCHANGED <<syncVars, pureVars>>

\* the underlying batch's fetch ends with an error: the batch records it
NativeRecordError ==
    /\ native.todo = <<>>
    /\ ~native.closed
    /\ native.term # "nil"
    /\ native.err = "nil"
    /\ native' = [native EXCEPT !.err = native.term]
    /\ UNCHANGED <<msgChan, chans, producers, tasks, received>>
    /\ UNCHANGED <<syncVars, pureVars>>

\* the underlying batch is complete (a terminal error, if any, recorded) and
\* closes its native channel
NativeClose ==
    /\ native.todo = <<>>
    /\ ~native.closed
    /\ native.err = native.term
    /\ native' = [native EXCEPT !.closed = TRUE]
    /\ UNCHANGED <<msgChan, chans, producers, tasks, received>>
    /\ UNCHANGED <<syncVars, pureVars>>

\* no Error() call made yet by a task
NoError == [called |-> FALSE, after |-> FALSE, v |-> "nil", rec |-> "nil"]

\* BatchError with an error field of the wrapper's own, which nothing sets
BatchError_OwnField(t) ==
    /\ tasks[t].pc = "idle"
    /\ tasks' = [tasks EXCEPT ![t].err =
                     [called |-> TRUE, after |-> tasks[t].closed # {},
                      v |-> "nil", rec |-> native.err]]
    /\ UNCHANGED <<msgChan, chans, native, producers, received>>
    /\ UNCHANGED <<syncVars, pureVars>>

\* TracedMessageBatch.Error(): b.batch.Error(). The task keeps what it got
\* (v), what the underlying batch held at that time (rec), and whether it
\* had found the Messages() channel closed before the call (after).
BatchError(t) ==
    /\ tasks[t].pc = "idle"
    /\ tasks' = [tasks EXCEPT ![t].err =
                     [called |-> TRUE, after |-> tasks[t].closed # {},
                      v |-> native.err, rec |-> native.err]]
    /\ UNCHANGED <<msgChan, chans, native, producers, received>>
    /\ UNCHANGED <<syncVars, pureVars>>

\* the state Fetch leaves behind on success: its receive span, ended, and
\* the context of that span as the batch's context
AfterFetch ==
    LET st == startFetchSpan(<<>>, "c1")
    IN  /\ spans = SpanEnd(st.spans, st.id)
        /\ last = Done(InCall("Fetch", Background, NoMsg, st.id, st.ctx, 0),
                       Ok("batch", NoMsg), Ok("batch", NoMsg))

InitBatch ==
    /\ opts \in {o \in OptionValues : o.asyncSpans /\ o.stream = ""}
    /\ tcStream = "ORDERS"
    /\ AfterFetch
    /\ call = Idle
    /\ wire = <<>>
    /\ nops = 1
    /\ iters = 0
    /\ msgChan = 0
    /\ chans = <<>>
    /\ \E n \in 0..MaxBatch : \E b \in Batches(n) : \E e \in TerminalErrors :
          native = [all |-> b, todo |-> b, queue |-> <<>>, closed |-> FALSE,
                    err |-> "nil", term |-> e]
    /\ producers = <<>>
    /\ tasks = [t \in Tasks |-> [pc |-> "idle", calls |-> 0, got |-> {},
                                 closed |-> {}, err |-> NoError]]
    /\ received = <<>>
    /\ PureIdle

\* the steps of the batch that do not depend on how Messages() is called
BatchSteps ==
    \/ \E t \in Tasks : MessagesMake(t)
    \/ \E t \in Tasks : MessagesGo(t)
    \/ \E t \in Tasks : MessagesReturnChan(t)
    \/ \E p \in 1..Len(producers) : ProducerStart(p)
    \/ \E p \in 1..Len(producers) : ProducerTake(p)
    \/ \E t \in Tasks, c \in 1..Len(chans), p \in 1..Len(producers) : Receive(t, c, p)
    \/ \E t \in Tasks, c \in 1..Len(chans) : ReceiveClosed(t, c)
    \/ \E p \in 1..Len(producers) : ProducerExit(p)
    \/ NativeDeliver
    \/ NativeRecordError
    \/ NativeClose

\* Messages() may be called by any task at any time
NextBatch ==
    \/ \E t \in Tasks : MessagesCheck(t)
    \/ \E p \in 1..Len(producers) : ProducerSendOnClosed(p)
    \/ BatchSteps

SpecBatch == InitBatch /\ [][NextBatch]_vars

\* Messages() is only called while no other Messages() call is in progress;
\* Error() is called at any time between calls
NextBatchSeq ==
    \/ \E t \in Tasks : (\A u \in Tasks : tasks[u].pc = "idle") /\ MessagesCheck(t)
    \/ \E t \in Tasks : BatchError(t)
    \/ BatchSteps

SpecBatchSeq == InitBatch /\ [][NextBatchSeq]_vars

----------------------------------------------------------------------------
(* C8, C9, C10 *)

\* the context the i-th message of the batch is to be yielded with: the
\* remote parent its own traceparent names, the batch's context if it has
\* no header map
OwnContext(m) ==
    IF m.header.isNil THEN BatchCtx
    ELSE [trace  |-> m.header.vals["traceparent"][1][2],
          span   |-> m.header.vals["traceparent"][1][3],
          remote |-> TRUE]

\* C8: what the callers have received from the Messages() channel is, in
\* order, the beginning of the underlying batch's message sequence, the i-th
\* value wrapping the i-th message with the context extracted from that
\* message's own headers over the batch's context; once the channel is found
\* closed it is the whole sequence. (Messages() calls do not overlap.)
C8_BatchOrderAndContext ==
    /\ Len(received) <= Len(native.all)
    /\ \A i \in 1..Len(received) :
          /\ received[i].tm.msg = native.all[i]
          /\ received[i].tm.ctx = OwnContext(native.all[i])
    /\ \A t \in Tasks :
          tasks[t].closed # {} => Len(received) = Len(native.all)

\* a batch of three messages, the first two with distinct remote parents and
\* the third without headers, has been drained to the close of the channel
C8_Witness ==
    /\ Len(received) = 3
    /\ received[1].tm.ctx.trace = 5
    /\ received[2].tm.ctx.trace = 6
    /\ received[3].tm.ctx = BatchCtx
    /\ \E t \in Tasks : tasks[t].closed # {}

\* C9 as claimed: whatever the interleaving of Messages() calls on a batch,
\* there is at most one producer, one channel, and one close of a channel.
C9_OneProducerUnderConcurrency ==
    /\ Len(producers) <= 1
    /\ Len(chans) <= 1
    /\ \A c \in 1..Len(chans) : chans[c].closes <= 1

\* C10: under sequential calls Messages() is lazy and idempotent: no
\* producer and no channel exist before the first call, the first call makes
\* one channel and spawns one producer, and every call returns that channel.
C10_LazyIdempotent ==
    /\ (\A t \in Tasks : tasks[t].pc = "idle" /\ tasks[t].calls = 0) =>
          /\ producers = <<>>
          /\ chans = <<>>
          /\ msgChan = 0
    /\ (\E t \in Tasks : tasks[t].calls > 0) =>
          /\ Len(producers) = 1
          /\ Len(chans) = 1
    /\ \A t \in Tasks : tasks[t].got \subseteq {1}
    /\ Len(producers) <= 1

\* both tasks have called Messages() twice, one after the other
C10_Witness ==
    /\ \A t \in Tasks : tasks[t].calls >= 2 /\ tasks[t].got = {1}
    /\ Len(producers) = 1

----------------------------------------------------------------------------
(* C11 *)

\* the underlying batch still has messages the producers have not pulled
NativeHasMore == native.todo # <<>> \/ native.queue # <<>>

\* C11: while the underlying batch still has messages, a producer whose send
\* is pending takes no step of its own: the only step that changes it is a
\* receive of its pending value from the channel it sends on, after which it
\* is back in its loop; it pulls no further message, and no channel is
\* closed.
C11_ProducerParkedOnSend ==
    [][ \A p \in 1..Len(producers) :
          (producers[p].pc = "send" /\ NativeHasMore) =>
             /\ \A c \in 1..Len(chans) : chans'[c].closes = 0
             /\ producers'[p] # producers[p] =>
                   /\ received' = Append(received, [ch |-> producers[p].dst,
                                                    tm |-> producers[p].cur])
                   /\ producers'[p] = [producers[p] EXCEPT !.pc = "range"]
                   /\ native' = native ]_vars

\* the caller has taken one message and then stopped: the producer holds the
\* second, its send pending, while the native channel has the third ready
C11_Witness ==
    /\ Len(received) = 1
    /\ Len(producers) = 1
    /\ producers[1].pc = "send"
    /\ producers[1].cur.msg.data = <<2>>
    /\ Len(native.queue) = 1
    /\ native.closed
    /\ chans[1].closes = 0

----------------------------------------------------------------------------
(* C12 *)

\* C12: Error() returns exactly the error the underlying batch holds at the
\* time of the call, and an Error() call made by a task after it found the
\* Messages() channel closed returns the terminal error of the fetch.
C12_ErrorAfterClose ==
    \A t \in Tasks :
        tasks[t].err.called =>
            /\ tasks[t].err.v = tasks[t].err.rec
            /\ tasks[t].err.after => tasks[t].err.v = native.term

\* a task drained a batch whose fetch ended with e1, found the channel
\* closed, and then got e1 from Error()
C12_Witness ==
    \E t \in Tasks :
        /\ tasks[t].err.called
        /\ tasks[t].err.after
        /\ tasks[t].err.v = "e1"
        /\ Len(received) = Len(native.all)
        /\ Len(received) > 0

----------------------------------------------------------------------------
(* C13 *)

\* C13: with the async-span option off, PublishAsync and PublishAsyncMsg
\* start no span, make no Inject call, hand the underlying async publish the
\* caller's arguments as they are (a nil header map still nil), once, and
\* return what it returns.
C13_AsyncDisabledPassthrough ==
    [][ ~opts.asyncSpans =>
          /\ Starts(AsyncPublishOps) =>
                /\ spans' = spans
                /\ call'.op \in AsyncPublishOps
                /\ call'.span = 0
                /\ call'.inj = 0
                /\ call'.msg = call'.arg
          /\ call.op \in AsyncPublishOps =>
                /\ spans' = spans
                /\ call'.op \in {call.op, "none"}
                /\ call'.op = "none" =>
                      /\ last'.msg = call.arg
                      /\ last'.ret = last'.d
                      /\ Len(wire') = Len(wire) + (IF last'.d.k = "ok" THEN 1 ELSE 0)
                      /\ last'.d.k = "ok" => wire'[Len(wire')].msg = call.arg ]_vars

\* with the option off, PublishAsyncMsg has passed on a message whose header
\* map is nil, and no span exists
C13_Witness ==
    /\ ~opts.asyncSpans
    /\ last.op = "PublishAsyncMsg"
    /\ last.d.k = "ok"
    /\ last.arg.header.isNil
    /\ wire[Len(wire)].msg.header.isNil
    /\ spans = <<>>

----------------------------------------------------------------------------
(* C14 *)

\* the spans of the async publishes that have returned a future
FutureSpans == {wire[i].span : i \in {j \in 1..Len(wire) : wire[j].fut # "none"}} \ {0}

\* C14: with the async-span option on, the producer span of a PublishAsync
\* or PublishAsyncMsg call is a root span (no parent, a trace of its own),
\* it has been ended once when the call returns, and from then on, the
\* resolution of the delivery future included, nothing is called on it.
C14_AsyncSpanRootEndedAtReturn ==
    [][ /\ (opts.asyncSpans /\ Completes(AsyncPublishOps)) =>
              LET sp == spans'[last'.span]
              IN  /\ sp.parent = 0
                  /\ \A j \in 1..Len(spans') : j # last'.span => spans'[j].trace # sp.trace
                  /\ sp.kind = "producer"
                  /\ Ends(sp) = 1
        /\ \A id \in FutureSpans : spans'[id] = spans[id] ]_vars

\* the delivery behind an async publish has failed after the call returned
\* its future: the producer span is ended and holds no error
C14_Witness ==
    \E i \in 1..Len(wire) :
        /\ wire[i].fut = "failed"
        /\ wire[i].span # 0
        /\ Ends(spans[wire[i].span]) = 1
        /\ ErrorStatus(spans[wire[i].span]) = {}
        /\ Len(spans[wire[i].span].calls) = 1

----------------------------------------------------------------------------
(* C15 *)

\* C15 as claimed: TracedConsumer.Messages() opens no span, and every Next()
\* call on the TracedMessagesContext it returned has opened a span of its
\* own, of kind client, ended once by the time the call is over.
C15_IterNextReceiveSpan ==
    /\ last.op = "Messages" => last.span = 0
    /\ last.op = "IterNext" =>
          /\ last.span # 0
          /\ spans[last.span].kind = "client"
          /\ Ends(spans[last.span]) = 1

----------------------------------------------------------------------------
(* C16 *)

\* C16 as claimed, for the batch iterator: a TracedMsg received from the
\* Messages() channel of a fetched batch whose message has a nil header map
\* has the empty root context, one that carries no span context.
C16_NilHeaderRootContext ==
    \A i \in 1..Len(received) :
        received[i].tm.msg.header.isNil =>
            /\ received[i].tm.ctx = Background
            /\ ~IsValid(received[i].tm.ctx)

----------------------------------------------------------------------------
(* C17 *)

ExtractOps == {"extractContext", "ExtractNATS"}

\* C17: when the message is nil or its header map is nil, extractContext
\* and ExtractNATSWithPropagator return the context they were given and make
\* no call on the propagator; so do the extractions inside Next() of the
\* consumer and of the continuous iterator.
C17_ExtractNoOpOnAbsentInput ==
    /\ (last.op \in ExtractOps /\ (last.msg.isNil \/ last.msg.header.isNil)) =>
          /\ last.tctx = last.ctx
          /\ last.ext = 0
    /\ (last.op \in {"Next", "IterNext"} /\ last.d.k = "ok"
           /\ last.msg.header.isNil) =>
          /\ last.tctx = Background
          /\ last.ext = 0
    /\ (last.op \in ExtractOps /\ ~last.msg.isNil /\ ~last.msg.header.isNil) =>
          last.ext = 1

\* ExtractNATSWithPropagator has been called with a context that holds a
\* span and a nil header map, and has returned that context
C17_Witness ==
    /\ last.op = "ExtractNATS"
    /\ last.ctx = ParentCtx
    /\ last.msg.header.isNil
    /\ last.tctx = ParentCtx
    /\ last.ext = 0

----------------------------------------------------------------------------
(* C18 *)

\* C18: the TracedMsg the wrapped handler passes to the user handler wraps
\* the inbound message itself, and its context is the one tracer.Start
\* returned for the process span: the current span in it is the process
\* span, not the extracted remote parent.
C18_HandlerSeesProcessSpan ==
    \A c \in {call, last} :
        c.op = "Handler" =>
            /\ c.msg = c.arg
            /\ c.span # 0
            /\ spans[c.span].kind = "consumer"
            /\ c.tctx = [trace |-> spans[c.span].trace, span |-> c.span,
                         remote |-> FALSE]

\* the user handler is running on a delivered message whose headers name a
\* remote parent: its context holds the process span, a child of that parent
C18_Witness ==
    /\ call.op = "Handler"
    /\ call.origin # 0
    /\ spans[call.span].parent = wire[call.origin].span
    /\ wire[call.origin].span # 0
    /\ call.tctx.span = call.span
    /\ call.tctx.span # spans[call.span].parent

----------------------------------------------------------------------------
(* C19 *)

\* the stream a process span is to be named after: the override if it is not
\* empty, else the stream of the metadata if the message has metadata, else ""
ExpectedStream(m, override) ==
    IF override # "" THEN override
    ELSE IF ~m.isNil /\ m.meta.ok THEN m.meta.stream
    ELSE ""

\* C19: the process span of the callback wrapper and of StartProcessSpan is
\* named "process " followed by S and has S as its nats.stream attribute,
\* S being the WithStream override if not empty, else the metadata's stream
\* if metadata is available, else the empty string.
C19_ProcessSpanStream ==
    \A c \in {call, last} :
        /\ c.op = "Handler" =>
              LET S == ExpectedStream(c.arg, opts.stream)
              IN  /\ spans[c.span].name = "process " \o S
                  /\ spans[c.span].attrs["nats.stream"] = S
        /\ c.op = "StartProcessSpan" =>
              LET S == ExpectedStream(c.arg, c.override)
              IN  /\ spans[c.span].name = "process " \o S
                  /\ spans[c.span].attrs["nats.stream"] = S

\* the wrapped handler, built with WithStream("OVR"), has run on a message
\* whose metadata names the stream ORDERS, and StartProcessSpan without an
\* override is running on a message without metadata
C19_Witness ==
    /\ opts.stream = "OVR"
    /\ last.op = "Handler"
    /\ last.arg.meta.ok
    /\ last.arg.meta.stream = "ORDERS"
    /\ spans[last.span].name = "process OVR"
    /\ call.op = "StartProcessSpan"
    /\ call.override = ""
    /\ ~call.arg.isNil
    /\ ~call.arg.meta.ok
    /\ spans[call.span].name = "process "

----------------------------------------------------------------------------
(* C20 *)

\* C20 as claimed: when the consumer wrapper's target stream name is empty,
\* the receive span is named "receive " followed by, and has as nats.stream
\* attribute, the WithStream override if one was given, else the stream of
\* the metadata of the message the call returned.
C20_ReceiveStreamFallback ==
    \A c \in {call, last} :
        (c.op \in FetchOps /\ tcStream = "") =>
            /\ opts.stream # "" =>
                  /\ spans[c.span].name = "receive " \o opts.stream
                  /\ spans[c.span].attrs["nats.stream"] = opts.stream
            /\ (opts.stream = "" /\ c.op = "Next" /\ c.msg.meta.ok) =>
                  /\ spans[c.span].name = "receive " \o c.msg.meta.stream
                  /\ spans[c.span].attrs["nats.stream"] = c.msg.meta.stream

----------------------------------------------------------------------------
(* C21: the process-span toggle *)

\* options values with WithProcessSpans(false) applied
ProcessSpansOff ==
    [tracerName : {"otx/nats"}, processSpans : {FALSE}, asyncSpans : {TRUE},
     stream : {"", "OVR"}]

\* a consumer wrapper and a handler wrapper built with WithProcessSpans(false)
InitProcessOff ==
    /\ opts \in ProcessSpansOff
    /\ tcStream \in TargetStreams
    /\ spans = <<>>
    /\ call = Idle
    /\ wire = <<>>
    /\ last = NoLast
    /\ nops = 0
    /\ iters = 0
    /\ BatchIdle
    /\ PureIdle

\* the operations of the consumer wrapper and the handler wrapper
NextConsumer ==
    \/ \E n \in CachedNames : FetchCall(n)
    \/ \E d \in FetchOutcomes : FetchReturn(d)
    \/ \E n \in CachedNames : FetchBytesCall(n)
    \/ \E d \in FetchOutcomes : FetchBytesReturn(d)
    \/ \E n \in CachedNames : FetchNoWaitCall(n)
    \/ \E d \in FetchOutcomes : FetchNoWaitReturn(d)
    \/ \E n \in CachedNames : NextCall(n)
    \/ \E d \in NextOutcomes : NextReturn(d)
    \/ MessagesCall
    \/ \E d \in MessagesOutcomes : MessagesReturn(d)
    \/ IterNextCall
    \/ \E d \in NextOutcomes : IterNextReturn(d)
    \/ ConsumeCall
    \/ \E d \in ConsumeOutcomes : ConsumeReturn(d)
    \/ \E m \in ForeignMsgs : HandlerInvoke(m, 0)
    \/ \E u \in UserOutcomes : HandlerDeferred(u)

SpecProcessOff == InitProcessOff /\ [][NextConsumer]_vars

\* C21: with the process-span toggle disabled, the wrappers create no
\* consumer-kind (process) span: every span they start is a receive span.
C21_NoProcessSpanWhenDisabled ==
    ~opts.processSpans =>
        \A i \in 1..Len(spans) : spans[i].kind # "consumer"

----------------------------------------------------------------------------
(* Options, providers and the constructors *)

MaxOpts == 2   \* options passed to one constructor call

instrumentationName == "otx/nats"

\* defaultOptions(): the zero value of stream is the empty string
defaultOptions ==
    [tracerName |-> instrumentationName, prop |-> "nil", processSpans |-> TRUE,
     asyncSpans |-> TRUE, stream |-> ""]

\* the Option values: each is a closure over the value it was made with
WithTracerName(name)      == [with |-> "WithTracerName", name |-> name]
WithPropagator(prop)      == [with |-> "WithPropagator", prop |-> prop]
WithProcessSpans(enabled) == [with |-> "WithProcessSpans", enabled |-> enabled]
WithAsyncSpans(enabled)   == [with |-> "WithAsyncSpans", enabled |-> enabled]
WithStream(stream)        == [with |-> "WithStream", stream |-> stream]

\* opt(&o): the assignment the closure makes
Option(opt, o) ==
    CASE opt.with = "WithTracerName"   -> [o EXCEPT !.tracerName = opt.name]
      [] opt.with = "WithPropagator"   -> [o EXCEPT !.prop = opt.prop]
      [] opt.with = "WithProcessSpans" -> [o EXCEPT !.processSpans = opt.enabled]
      [] opt.with = "WithAsyncSpans"   -> [o EXCEPT !.asyncSpans = opt.enabled]
      [] opt.with = "WithStream"       -> [o EXCEPT !.stream = opt.stream]

\* the loop of applyOptions: for _, opt := range opts { opt(&o) }
RECURSIVE applyRange(_, _)
applyRange(o, l) ==
    IF l = <<>> THEN o ELSE applyRange(Option(Head(l), o), Tail(l))

\* applyOptions ranging over the list from its end: the first option that
\* sets a field wins
applyOptions_FirstWins(l) ==
    applyRange(defaultOptions, [i \in 1..Len(l) |-> l[Len(l) + 1 - i]])

\* applyOptions
applyOptions(l) == applyRange(defaultOptions, l)

\* the options a caller passes
Options ==
    { WithTracerName("custom"), WithPropagator("propOpt"),
      WithProcessSpans(TRUE), WithProcessSpans(FALSE), WithAsyncSpans(FALSE),
      WithStream("OVR"), WithStream("S2") }

\* option lists of at most MaxOpts options
OptionLists == UNION { [1..n -> Options] : n \in 0..MaxOpts }

\* the tracer provider argument: nil, or an explicit provider
Providers == {"nil", "tp"}

\* the propagator argument: nil, or an explicit propagator
Propagators == {"nil", "propArg"}

\* the tracers InitTracing is given: none, or the application's tracer
TrackerTracers == {NoTracer, [provider |-> "app", name |-> "app"]}

\* tp.Tracer(name), with otel.GetTracerProvider() for a nil provider
ProviderTracer(tp, name) ==
    [provider |-> IF tp = "nil" THEN "otelGlobal" ELSE tp, name |-> name]

\* getTracer: tracker.Tracer() is the value of tracker
getTracer(tp, o) ==
    IF o.tracerName # instrumentationName THEN ProviderTracer(tp, o.tracerName)
    ELSE IF tracker # NoTracer THEN tracker
    ELSE ProviderTracer(tp, o.tracerName)

\* getPropagator
getPropagator(o) == IF o.prop # "nil" THEN o.prop ELSE "otelGlobal"

\* no call made yet
NoResult == [panic |-> "", wrapper |-> "none", opts |-> defaultOptions,
             tracer |-> NoTracer, prop |-> "nil"]

\* the wrapper a constructor returns: options applied, the explicit
\* propagator over the option's, tracer and propagator resolved
Wrapper(kind, tp, prop, l) ==
    LET a == applyOptions(l)
        o == IF prop # "nil" THEN [a EXCEPT !.prop = prop] ELSE a
    IN  [panic |-> "", wrapper |-> kind, opts |-> o, tracer |-> getTracer(tp, o),
         prop |-> getPropagator(o)]

\* a constructor call that panics: it returns nothing
Panicked(v) == [NoResult EXCEPT !.panic = v]

\* the call args describes, not made yet
Calls(fn, dep, tp, prop, l) ==
    /\ args = [fn |-> fn, dep |-> dep, tp |-> tp, prop |-> prop, opts |-> l]
    /\ result = NoResult

\* otx.InitTracing(tracer, namer), before the call
InitTracing(t) ==
    /\ result = NoResult
    /\ tracker' = t
    /\ UNCHANGED <<args, result>>
    /\ UNCHANGED <<syncVars, batchVars>>

\* NewPublisherWithProviders without the nil check
NewPublisherWithProviders_NoNilCheck(js, tp, prop, l) ==
    /\ Calls("NewPublisherWithProviders", js, tp, prop, l)
    /\ result' = Wrapper("Publisher", tp, prop, l)
    /\ UNCHANGED <<tracker, args>>
    /\ UNCHANGED <<syncVars, batchVars>>

\* NewPublisherWithProviders (NewPublisher with nil providers)
NewPublisherWithProviders(js, tp, prop, l) ==
    /\ Calls("NewPublisherWithProviders", js, tp, prop, l)
    /\ result' = IF js = "nil"
                 THEN Panicked("otx/nats: JetStream must not be nil")
                 ELSE Wrapper("Publisher", tp, prop, l)
    /\ UNCHANGED <<tracker, args>>
    /\ UNCHANGED <<syncVars, batchVars>>

\* WrapConsumerWithProviders (WrapConsumer with nil providers)
WrapConsumerWithProviders(c, tp, prop, l) ==
    /\ Calls("WrapConsumerWithProviders", c, tp, prop, l)
    /\ result' = IF c = "nil"
                 THEN Panicked("otx/nats: Consumer must not be nil")
                 ELSE Wrapper("TracedConsumer", tp, prop, l)
    /\ UNCHANGED <<tracker, args>>
    /\ UNCHANGED <<syncVars, batchVars>>

\* MessageHandlerWithTracingProviders (MessageHandlerWithTracing with nil
\* providers): the closure it returns keeps o, tracer and propagator
MessageHandlerWithTracingProviders(handler, tp, prop, l) ==
    /\ Calls("MessageHandlerWithTracingProviders", handler, tp, prop, l)
    /\ result' = IF handler = "nil"
                 THEN Panicked("otx/nats: handler must not be nil")
                 ELSE Wrapper("MessageHandler", tp, prop, l)
    /\ UNCHANGED <<tracker, args>>
    /\ UNCHANGED <<syncVars, batchVars>>

\* StartProcessSpanWithTracer on a TracedMsg without a message: options
\* applied, tracer resolved, the process span started
StartProcessSpanWithTracer(tp, l) ==
    /\ Calls("StartProcessSpanWithTracer", "msg", tp, "nil", l)
    /\ LET o  == applyOptions(l)
           st == TracerStart(spans, Background, "process " \o o.stream, "consumer",
                             processAttributes(o.stream, "", "", "", 0))
       IN  /\ result' = [panic |-> "", wrapper |-> "endFunc", opts |-> o,
                         tracer |-> getTracer(tp, o), prop |-> "nil"]
           /\ spans' = st.spans
    /\ nops' = nops + 1
    /\ UNCHANGED <<tracker, args>>
    /\ UNCHANGED <<opts, call, wire, last, tcStream, iters>>
    /\ UNCHANGED batchVars

\* applyOptions called on a list of options
ApplyOptionsCall(l) ==
    /\ Calls("applyOptions", "none", "nil", "nil", l)
    /\ result' = [NoResult EXCEPT !.wrapper = "options", !.opts = applyOptions(l)]
    /\ UNCHANGED <<tracker, args>>
    /\ UNCHANGED <<syncVars, batchVars>>

\* the required dependency of a constructor: nil, or a value
Dependencies == {"nil", "dep"}

\* the constructors
Constructors ==
    {"NewPublisherWithProviders", "WrapConsumerWithProviders",
     "MessageHandlerWithTracingProviders"}

\* the calls a behaviour may make: a constructor, StartProcessSpanWithTracer
\* or applyOptions, with its arguments
CallArgs ==
    [fn : Constructors, dep : Dependencies, tp : Providers, prop : Propagators,
     opts : OptionLists]
    \cup [fn : {"StartProcessSpanWithTracer"}, dep : {"msg"}, tp : Providers,
          prop : {"nil"}, opts : OptionLists]
    \cup [fn : {"applyOptions"}, dep : {"none"}, tp : {"nil"}, prop : {"nil"},
          opts : OptionLists]

InitConstruct ==
    /\ opts \in {o \in OptionValues : o.asyncSpans /\ o.stream = ""}
    /\ tcStream = "ORDERS"
    /\ spans = <<>>
    /\ call = Idle
    /\ wire = <<>>
    /\ last = NoLast
    /\ nops = 0
    /\ iters = 0
    /\ BatchIdle
    /\ tracker = NoTracer
    /\ args \in CallArgs
    /\ result = NoResult

NextConstruct ==
    \/ \E t \in TrackerTracers : InitTracing(t)
    \/ NewPublisherWithProviders(args.dep, args.tp, args.prop, args.opts)
    \/ WrapConsumerWithProviders(args.dep, args.tp, args.prop, args.opts)
    \/ MessageHandlerWithTracingProviders(args.dep, args.tp, args.prop, args.opts)
    \/ StartProcessSpanWithTracer(args.tp, args.opts)
    \/ ApplyOptionsCall(args.opts)

SpecConstruct == InitConstruct /\ [][NextConstruct]_vars

\* the constructors and StartProcessSpanWithTracer, which resolve a tracer
TracerUsers ==
    {"NewPublisherWithProviders", "WrapConsumerWithProviders",
     "MessageHandlerWithTracingProviders", "StartProcessSpanWithTracer"}

\* C22: when an explicit tracer provider is passed, the tracer that creates
\* the spans is obtained from that provider, whatever process-wide tracer
\* state has been set; a process-wide tracer is used only for a nil provider.
C22_ExplicitProviderUsed ==
    (args.fn \in TracerUsers /\ result.wrapper # "none" /\ args.tp # "nil") =>
        result.tracer.provider = args.tp

\* the message each constructor documents for its nil dependency
NilPanic ==
    [f \in Constructors |->
        CASE f = "NewPublisherWithProviders" -> "otx/nats: JetStream must not be nil"
          [] f = "WrapConsumerWithProviders" -> "otx/nats: Consumer must not be nil"
          [] f = "MessageHandlerWithTracingProviders" ->
                 "otx/nats: handler must not be nil"]

\* C24: a constructor called with a nil required dependency panics with the
\* fixed message of that constructor, whatever the providers and the options,
\* returns no wrapper and creates no span.
C24_NilDependencyPanics ==
    [][(args.fn \in Constructors /\ args.dep = "nil" /\ result' # result) =>
          /\ result'.panic = NilPanic[args.fn]
          /\ result'.wrapper = "none"
          /\ result'.tracer = NoTracer
          /\ spans' = spans]_vars

\* a handler constructor has panicked on a nil handler although it was given
\* an explicit provider, an explicit propagator and options, after
\* InitTracing
C24_Witness ==
    /\ args.fn = "MessageHandlerWithTracingProviders"
    /\ args.dep = "nil"
    /\ args.tp # "nil"
    /\ args.prop # "nil"
    /\ Len(args.opts) = MaxOpts
    /\ tracker # NoTracer
    /\ result.panic = "otx/nats: handler must not be nil"

\* the field an option sets
OptionField(opt) ==
    CASE opt.with = "WithTracerName"   -> "tracerName"
      [] opt.with = "WithPropagator"   -> "prop"
      [] opt.with = "WithProcessSpans" -> "processSpans"
      [] opt.with = "WithAsyncSpans"   -> "asyncSpans"
      [] opt.with = "WithStream"       -> "stream"

\* the value an option was made with
OptionValue(opt) ==
    CASE opt.with = "WithTracerName"   -> opt.name
      [] opt.with = "WithPropagator"   -> opt.prop
      [] opt.with = "WithProcessSpans" -> opt.enabled
      [] opt.with = "WithAsyncSpans"   -> opt.enabled
      [] opt.with = "WithStream"       -> opt.stream

\* the positions of the list l whose option sets field f
Setters(l, f) == {i \in 1..Len(l) : OptionField(l[i]) = f}

\* the greatest element of a non-empty set of numbers
Greatest(S) == CHOOSE i \in S : \A j \in S : j <= i

\* C25: applyOptions folds the option list from the left over the defaults:
\* each field holds the value of the last option of the list that sets it,
\* or its default (tracer name "otx/nats", nil propagator, process spans
\* and async spans true, empty stream) when no option sets it; and applying
\* an option a second time changes nothing.
C25_ApplyOptionsFold ==
    (args.fn = "applyOptions" /\ result.wrapper = "options") =>
        /\ \A f \in DOMAIN defaultOptions :
              result.opts[f] =
                  IF Setters(args.opts, f) = {}
                  THEN (CASE f = "tracerName"   -> "otx/nats"
                          [] f = "prop"         -> "nil"
                          [] f = "processSpans" -> TRUE
                          [] f = "asyncSpans"   -> TRUE
                          [] f = "stream"       -> "")
                  ELSE OptionValue(args.opts[Greatest(Setters(args.opts, f))])
        /\ \A x \in Options :
              applyOptions(args.opts \o <<x, x>>) = applyOptions(args.opts \o <<x>>)

\* applyOptions has returned for a list in which two options set the same
\* field to different values: the later one is in the result
C25_Witness ==
    /\ args.fn = "applyOptions"
    /\ result.wrapper = "options"
    /\ args.opts = <<WithStream("OVR"), WithStream("S2")>>
    /\ result.opts.stream = "S2"
    /\ result.opts.tracerName = "otx/nats"

----------------------------------------------------------------------------
(* C23 *)

\* the operations that inject into a message the caller supplied
MsgPublishOps == {"PublishMsg", "PublishAsyncMsg"}

\* what a call c has made of the caller's message (c.arg as supplied, c.msg
\* as it is now): only the header map differs, it is a map, and every key
\* but the propagator's holds what it held
OnlyHeaderWritten(c) ==
    /\ c.msg.isNil = c.arg.isNil
    /\ c.msg.subject = c.arg.subject
    /\ c.msg.data = c.arg.data
    /\ c.msg.meta = c.arg.meta
    /\ ~c.msg.header.isNil
    /\ \A k \in HeaderKeys \ {"traceparent"} :
          /\ (k \in c.msg.header.keys) = (k \in c.arg.header.keys)
          /\ c.msg.header.vals[k] = c.arg.header.vals[k]

\* C23: PublishMsg, and PublishAsyncMsg with async spans enabled, change the
\* caller's message only in its header map: a nil map is replaced by a new
\* one, the propagator's key is written with the context of the producer
\* span, on the success and on the error path, and the subject, the payload
\* and every other header entry stay as the caller supplied them.
C23_OnlyHeaderInjected ==
    /\ (call.op \in MsgPublishOps /\ call.span # 0) =>
          /\ OnlyHeaderWritten(call)
          /\ CarrierGet(call.msg.header, "traceparent") = FormatTraceparent(call.tctx)
    /\ (last.op \in MsgPublishOps /\ last.span # 0) =>
          /\ OnlyHeaderWritten(last)
          /\ last.ret.k \in {"ok", "err"} =>
                CarrierGet(last.msg.header, "traceparent") = FormatTraceparent(last.tctx)

\* PublishMsg has failed on a message that came with an application header
\* and a stale traceparent: the application header is kept and the
\* traceparent is the span's
C23_Witness ==
    /\ last.op = "PublishMsg"
    /\ last.ret.k = "err"
    /\ last.arg.header = StaleHeader
    /\ CarrierGet(last.msg.header, "x-app") = <<"v">>
    /\ CarrierGet(last.msg.header, "traceparent") # CarrierGet(StaleHeader, "traceparent")

----------------------------------------------------------------------------
(* The attribute builders as functions of their arguments *)

MaxBody == 2   \* greatest body size passed to an attribute builder

\* string arguments: empty, or one of two values
AttrStrings == {"", "a", "b"}

\* the int argument
BodySizes == (0 - 1)..MaxBody

\* the calls of the attribute builders, by builder
AttrCalls ==
    [fn : {"publishAttributes"}, stream : {""}, consumerName : {""},
     subject : AttrStrings, msgID : AttrStrings, bodySize : BodySizes]
    \cup [fn : {"receiveAttributes"}, stream : AttrStrings,
          consumerName : AttrStrings, subject : {""}, msgID : {""},
          bodySize : BodySizes]
    \cup [fn : {"processAttributes"}, stream : AttrStrings,
          consumerName : AttrStrings, subject : AttrStrings, msgID : AttrStrings,
          bodySize : BodySizes]

\* no attribute list built yet
NoAttrs == [built |-> FALSE, attrs |-> <<>>]

\* a call of publishAttributes
PublishAttributesCall ==
    /\ args.fn = "publishAttributes"
    /\ ~result.built
    /\ result' = [built |-> TRUE,
                  attrs |-> publishAttributes(args.subject, args.msgID, args.bodySize)]
    /\ UNCHANGED <<tracker, args>>
    /\ UNCHANGED <<syncVars, batchVars>>

\* a call of receiveAttributes
ReceiveAttributesCall ==
    /\ args.fn = "receiveAttributes"
    /\ ~result.built
    /\ result' = [built |-> TRUE,
                  attrs |-> receiveAttributes(args.stream, args.consumerName,
                                              args.bodySize)]
    /\ UNCHANGED <<tracker, args>>
    /\ UNCHANGED <<syncVars, batchVars>>

\* a call of processAttributes
ProcessAttributesCall ==
    /\ args.fn = "processAttributes"
    /\ ~result.built
    /\ result' = [built |-> TRUE,
                  attrs |-> processAttributes(args.stream, args.consumerName,
                                              args.subject, args.msgID, args.bodySize)]
    /\ UNCHANGED <<tracker, args>>
    /\ UNCHANGED <<syncVars, batchVars>>

InitAttributes ==
    /\ opts \in {o \in OptionValues : o.asyncSpans /\ o.stream = ""}
    /\ tcStream = "ORDERS"
    /\ spans = <<>>
    /\ call = Idle
    /\ wire = <<>>
    /\ last = NoLast
    /\ nops = 0
    /\ iters = 0
    /\ BatchIdle
    /\ tracker = NoTracer
    /\ args \in AttrCalls
    /\ result = NoAttrs

NextAttributes ==
    \/ PublishAttributesCall
    \/ ReceiveAttributesCall
    \/ ProcessAttributesCall

SpecAttributes == InitAttributes /\ [][NextAttributes]_vars

\* the keys every list of a builder holds
RequiredKeys(fn) ==
    {"messaging.system", "messaging.operation.name", "messaging.operation.type"}
    \cup (IF fn = "publishAttributes" THEN {"messaging.destination.name"}
          ELSE {"nats.stream"})

\* the optional keys of a builder, each with the argument it is made from
OptionalKeys(a) ==
    CASE a.fn = "publishAttributes" ->
            ("messaging.message.id" :> a.msgID)
            @@ ("messaging.message.body.size" :> a.bodySize)
      [] a.fn = "receiveAttributes" ->
            ("messaging.consumer.group.name" :> a.consumerName)
            @@ ("messaging.message.body.size" :> a.bodySize)
      [] a.fn = "processAttributes" ->
            ("messaging.destination.name" :> a.subject)
            @@ ("messaging.consumer.group.name" :> a.consumerName)
            @@ ("messaging.message.id" :> a.msgID)
            @@ ("messaging.message.body.size" :> a.bodySize)

\* an argument that makes its optional key appear: a non-empty string, a
\* size above zero
IsSet(k, v) == IF k = "messaging.message.body.size" THEN v > 0 ELSE v # ""

\* C26: the list an attribute builder returns holds the builder's required
\* keys always, and each optional key exactly when its argument is a
\* non-empty string or a size above zero, with that argument as its value;
\* no optional key is present with an empty or zero value.
C26_OptionalAttributesOnlyWhenSet ==
    result.built =>
        LET keys == DOMAIN result.attrs
            opt  == OptionalKeys(args)
        IN  /\ RequiredKeys(args.fn) \subseteq keys
            /\ keys \subseteq RequiredKeys(args.fn) \cup DOMAIN opt
            /\ \A k \in DOMAIN opt :
                  /\ (k \in keys) = IsSet(k, opt[k])
                  /\ k \in keys => result.attrs[k] = opt[k]

\* processAttributes has been called with an empty subject and message id, a
\* consumer name and a zero size: of the optional keys only the consumer
\* group is in the list
C26_Witness ==
    /\ result.built
    /\ args.fn = "processAttributes"
    /\ args.subject = "" /\ args.msgID = "" /\ args.bodySize = 0
    /\ args.consumerName = "a"
    /\ DOMAIN result.attrs =
          RequiredKeys("processAttributes") \cup {"messaging.consumer.group.name"}

----------------------------------------------------------------------------
(* C27 *)

\* C27: the receive span of a fetch covers the fetch call only: it has been
\* ended, once and as the last call made on it, when the batch is returned,
\* so before a producer exists and before a message is yielded; and the
\* iteration of the batch starts no span, whatever the number of messages.
C27_ReceiveSpanCoversFetchOnly ==
    /\ last.op \in FetchOps
    /\ last.ret.k = "ok"
    /\ Len(spans) = 1
    /\ last.span = 1
    /\ spans[1].kind = "client"
    /\ Ends(spans[1]) = 1
    /\ spans[1].calls[Len(spans[1].calls)][1] = "End"

\* a batch of MaxBatch messages has been iterated to the end: every message
\* was yielded and the channel found closed, with the one span of the fetch
C27_Witness ==
    /\ Len(received) = MaxBatch
    /\ \E t \in Tasks : tasks[t].closed # {}
    /\ Len(producers) = 1
    /\ Len(spans) = 1
    /\ Ends(spans[1]) = 1

----------------------------------------------------------------------------
(* C28: termination of the producer *)

\* What the runtime and the claim's premises guarantee: a Messages() call
\* in progress runs to its return, the goroutine started by the go statement
\* is scheduled, the underlying batch delivers its finite sequence and ends
\* it, and the caller receives whenever the producer offers a message.
BatchFairness ==
    /\ WF_vars(\E t \in Tasks : MessagesMake(t))
    /\ WF_vars(\E t \in Tasks : MessagesGo(t))
    /\ WF_vars(\E t \in Tasks : MessagesReturnChan(t))
    /\ WF_vars(\E p \in 1..Len(producers) : ProducerStart(p))
    /\ WF_vars(\E p \in 1..Len(producers) : ProducerTake(p))
    /\ WF_vars(\E p \in 1..Len(producers) : ProducerExit(p))
    /\ WF_vars(\E t \in Tasks, c \in 1..Len(chans), p \in 1..Len(producers) :
                  Receive(t, c, p))
    /\ WF_vars(NativeDeliver)
    /\ WF_vars(NativeRecordError)
    /\ WF_vars(NativeClose)

SpecBatchLive == InitBatch /\ [][NextBatchSeq]_vars /\ BatchFairness

\* the channel of the batch has been closed and its producer has returned
ProducerFinished ==
    /\ msgChan # 0
    /\ chans[msgChan].closes = 1
    /\ \A p \in 1..Len(producers) : producers[p].pc = "done"

\* the messages yielded so far
Yielded == [i \in 1..Len(received) |-> received[i].tm.msg]

\* C28: when the native sequence is finite and ends and the caller keeps
\* receiving, a Messages() channel once made is eventually closed and the
\* producer terminates; and the channel is only closed after every message
\* of the native sequence has been delivered to the caller.
C28_ProducerTerminates ==
    /\ (msgChan # 0) ~> ProducerFinished
    /\ [](\A c \in 1..Len(chans) : chans[c].closes > 0 => Yielded = native.all)

\* a batch of MaxBatch messages whose channel is closed, whose producer has
\* returned and whose messages the caller has all received
C28_Witness ==
    /\ ProducerFinished
    /\ Len(native.all) = MaxBatch
    /\ Yielded = native.all

----------------------------------------------------------------------------
(* C29 *)

\* C29 as claimed: a process span opened by StartProcessSpan is closed
\* exactly once however many times its end function is called: End is
\* called on it at most once, and once when the end function has been
\* called.
C29_ProcessSpanClosedOnce ==
    /\ call.op = "StartProcessSpan" => Ends(spans[call.span]) = 0
    /\ last.op = "StartProcessSpan" => Ends(spans[last.span]) = 1

----------------------------------------------------------------------------
(* The header carrier as a map: sequences of Set calls *)

MaxSets == 3   \* Set calls made on one carrier

\* header values: the empty string, or one of two values
HeaderValues == {<<>>, <<"v">>, <<"w">>}

\* the maps a carrier is made over: an empty map, or one in which a key
\* holds two values (as two nats.Header.Add calls leave it)
CarrierHeaders ==
    { MakeHeader,
      [MakeHeader EXCEPT !.keys = {"x-app"}, !.vals["x-app"] = << <<"v">>, <<"w">> >>] }

\* carrier.Set(key, value) on the carrier of result; args keeps the map the
\* carrier was made over and the calls made
CarrierSetCall(key, value) ==
    /\ Len(args.sets) < MaxSets
    /\ result' = CarrierSet(result, key, value)
    /\ args' = [args EXCEPT !.sets = Append(@, [key |-> key, value |-> value])]
    /\ UNCHANGED tracker
    /\ UNCHANGED <<syncVars, batchVars>>

InitCarrier ==
    /\ opts \in {o \in OptionValues : o.asyncSpans /\ o.stream = ""}
    /\ tcStream = "ORDERS"
    /\ spans = <<>>
    /\ call = Idle
    /\ wire = <<>>
    /\ last = NoLast
    /\ nops = 0
    /\ iters = 0
    /\ BatchIdle
    /\ tracker = NoTracer
    /\ result \in CarrierHeaders
    /\ args = [made |-> result, sets |-> <<>>]

NextCarrier == \E k \in HeaderKeys, v \in HeaderValues : CarrierSetCall(k, v)

SpecCarrier == InitCarrier /\ [][NextCarrier]_vars

\* the Set calls made with exactly the key k, by position
SetsOf(k) == {i \in 1..Len(args.sets) : args.sets[i].key = k}

\* C30: over a non-nil map and after any sequence of Set calls, Get(k) is
\* the value of the last Set made with exactly the spelling k, the empty
\* string for a key neither set nor in the map, and the first value of a key
\* that holds several; Keys() is the set of the keys set, with those the map
\* came with.
C30_CarrierIsMapOfLastSet ==
    /\ \A k \in HeaderKeys :
          CarrierGet(result, k) =
              IF SetsOf(k) # {} THEN args.sets[Greatest(SetsOf(k))].value
              ELSE IF k \in args.made.keys THEN args.made.vals[k][1]
              ELSE <<>>
    /\ CarrierKeys(result) =
          args.made.keys \cup {args.sets[i].key : i \in 1..Len(args.sets)}

\* the key was set in both spellings, the lower-case one twice: each
\* spelling reads back its own last value, and the key that holds two values
\* reads back the first
C30_Witness ==
    /\ args.sets = << [key |-> "traceparent", value |-> <<"v">>],
                      [key |-> "Traceparent", value |-> <<"v">>],
                      [key |-> "traceparent", value |-> <<"w">>] >>
    /\ CarrierGet(result, "traceparent") = <<"w">>
    /\ CarrierGet(result, "Traceparent") = <<"v">>
    /\ Len(result.vals["x-app"]) = 2
    /\ CarrierGet(result, "x-app") = <<"v">>
    /\ CarrierKeys(result) = HeaderKeys

====
